---- MODULE Spec2Model ----
(***************************************************************************)
(* Verification model of Core::CppDocument (src/src/core/cppdocument.cpp): *)
(* the header/source resolver with its process-wide cache, the delimiter   *)
(* navigator (moveBlock and the gotoBlock* callers), the preprocessor      *)
(* section toggle, and the include / forward-declaration mutators.         *)
(*                                                                         *)
(* Strings are sequences of one-character strings, so that lengths,        *)
(* offsets, prefixes and suffixes are computed as the code computes them.  *)
(* Offsets are 0-based as in QString / QTextDocument; sequences are        *)
(* 1-based, so the character at offset p of s is s[p + 1].                 *)
(***************************************************************************)
EXTENDS Integers, Sequences, FiniteSets, TLC

VARIABLES
    cache,      \* correspondingHeaderSource: static QHash<QString, QString> cache
    disk,       \* the files that exist (QFile::exists)
    project,    \* Project::instance()'s file list, in the order it is listed
    lastCall,   \* observation of the last correspondingHeaderSource call
    firstRet,   \* observation: file -> first non-empty path returned for it
    text,       \* the document's text (QTextDocument), a sequence of characters
    cursor,     \* textEdit()->textCursor().position()
    anchor,     \* textEdit()->textCursor().anchor()
    docFile,    \* fileName() of the document
    fnStart,    \* start offset of the function symbol the document holds, -1 if none
    settings,   \* Settings::instance(): the toggle_section values
    hist,       \* observation: the operations applied to the document so far, each
                \* with its argument, its result and the state it started from
    peer,       \* the text of the counterpart document (Project::get of the
                \* corresponding header or source), empty when there is none
    opened      \* the paths the project holds an open document for

vars == <<cache, disk, project, lastCall, firstRet,
          text, cursor, anchor, docFile, fnStart, settings, hist, peer, opened>>

resolverVars == <<cache, disk, project, lastCall, firstRet>>
docVars == <<text, cursor, anchor, docFile, fnStart, settings, hist, peer, opened>>

----------------------------------------------------------------------------
(* QString helpers *)

Empty == <<>>

Min(S) == CHOOSE x \in S : \A y \in S : x <= y
Max(S) == CHOOSE x \in S : \A y \in S : x >= y

\* the one element of a set of one element
the(S) == CHOOSE r \in S : TRUE

\* the elements of a set of numbers, in ascending order
ascending(S) == [i \in 1..Cardinality(S) |-> CHOOSE e \in S : Cardinality({f \in S : f < e}) = i - 1]

\* QChar::toLower on the characters that occur in the model's paths
toLower(c) ==
    CASE c = "X" -> "x"
      [] c = "H" -> "h"
      [] c = "B" -> "b"
      [] OTHER -> c

\* QString::left(n): the whole string when n is negative or >= size
left(s, n) == IF n < 0 \/ n >= Len(s) THEN s ELSE SubSeq(s, 1, n)

\* QString::mid(pos): the substring from offset pos to the end
mid(s, pos) == IF pos >= Len(s) THEN Empty ELSE SubSeq(s, (IF pos < 0 THEN 0 ELSE pos) + 1, Len(s))

\* QString::indexOf(QChar c, from): offset of the first c at or after from, -1 if none
indexOfChar(s, c, from) ==
    LET hits == {i \in 1..Len(s) : i - 1 >= from /\ s[i] = c}
    IN  IF hits = {} THEN -1 ELSE Min(hits) - 1

\* QString::lastIndexOf(QChar c): offset of the last c, -1 if none
lastIndexOfChar(s, c) ==
    LET hits == {i \in 1..Len(s) : s[i] = c}
    IN  IF hits = {} THEN -1 ELSE Max(hits) - 1

\* QString::startsWith(prefix)
startsWith(s, prefix) ==
    /\ Len(prefix) <= Len(s)
    /\ SubSeq(s, 1, Len(prefix)) = prefix

\* QString::endsWith(tail, Qt::CaseInsensitive)
endsWithCI(s, tail) ==
    /\ Len(tail) <= Len(s)
    /\ \A i \in 1..Len(tail) : toLower(s[Len(s) - Len(tail) + i]) = toLower(tail[i])

\* QString::indexOf(QString sub, from): offset of the first occurrence, -1 if none
indexOfStr(s, sub, from) ==
    LET hits == {i \in 1..(Len(s) - Len(sub) + 1) :
                    i - 1 >= from /\ SubSeq(s, i, i + Len(sub) - 1) = sub}
    IN  IF hits = {} THEN -1 ELSE Min(hits) - 1

\* offset of the last occurrence of sub that ends at or before offset upto, -1 if none
lastIndexOfStrBefore(s, sub, upto) ==
    LET hits == {i \in 1..(Len(s) - Len(sub) + 1) :
                    i - 1 + Len(sub) <= upto /\ SubSeq(s, i, i + Len(sub) - 1) = sub}
    IN  IF hits = {} THEN -1 ELSE Max(hits) - 1

----------------------------------------------------------------------------
(* QFileInfo *)

\* QFileInfo::fileName(): what follows the last '/'
fileNamePart(f) == mid(f, lastIndexOfChar(f, "/") + 1)

\* QFileInfo::absolutePath(): what precedes the last '/'
absolutePath(f) == SubSeq(f, 1, lastIndexOfChar(f, "/"))

\* QFileInfo::suffix(): what follows the last '.' of the file name
suffixOf(f) ==
    LET n == fileNamePart(f)
        d == lastIndexOfChar(n, ".")
    IN  IF d < 0 THEN Empty ELSE mid(n, d + 1)

\* QFileInfo::completeBaseName(): the file name up to its last '.'
completeBaseName(f) ==
    LET n == fileNamePart(f)
        d == lastIndexOfChar(n, ".")
    IN  IF d < 0 THEN n ELSE SubSeq(n, 1, d)

----------------------------------------------------------------------------
(* HeaderSourceResolver: CppDocument::correspondingHeaderSource *)

\* Suffixes whose mime type is Document::Type::Cpp, in the order matchingSuffixes
\* iterates them (a std::map, so sorted by key): c, cpp, h, hpp
CppSuffixes == << <<"c">>, <<"c","p","p">>, <<"h">>, <<"h","p","p">> >>

\* The files that may exist. /b/X.H differs from /b/x.h only by case; /a/x.h and
\* /c/x.h are equally close to /b/x.cpp.
Universe ==
    << <<"/","a","/","x",".","c","p","p">>,
       <<"/","a","/","x",".","h">>,
       <<"/","a","/","x",".","c">>,
       <<"/","b","/","x",".","c","p","p">>,
       <<"/","b","/","X",".","H">>,
       <<"/","c","/","x",".","h">> >>

Files == {Universe[i] : i \in 1..Len(Universe)}

Reverse(s) == [i \in 1..Len(s) |-> s[Len(s) + 1 - i]]

isHeaderSuffix(suffix) == Len(suffix) > 0 /\ suffix[1] = "h"

isHeaderFile(f) == isHeaderSuffix(suffixOf(f))

matchingSuffixes(header) ==
    SelectSeq(CppSuffixes,
              LAMBDA s : (header /\ ~isHeaderSuffix(s)) \/ (~header /\ isHeaderSuffix(s)))

candidateFileNames(baseName, suffixes) ==
    [i \in 1..Len(suffixes) |-> baseName \o <<".">> \o suffixes[i]]

commonFilePathLength(s1, s2) ==
    LET length == IF Len(s1) < Len(s2) THEN Len(s1) ELSE Len(s2)
        diff == {i \in 1..length : toLower(s1[i]) # toLower(s2[i])}
    IN  IF diff = {} THEN length ELSE Min(diff) - 1

\* Project::allFilesWithExtensions(suffixes, FullPath): the project's files whose
\* suffix is one of suffixes
allFilesWithExtensions(proj, suffixes) ==
    SelectSeq(proj, LAMBDA p :
        \E i \in 1..Len(suffixes) :
            Len(suffixOf(p)) = Len(suffixes[i]) /\ endsWithCI(suffixOf(p), suffixes[i]))

\* kdalgorithms::erase_if(fullPathNames, notCandidate)
eraseNotCandidate(fullPathNames, candidates) ==
    SelectSeq(fullPathNames, LAMBDA path :
        ~(\A i \in 1..Len(candidates) : ~endsWithCI(path, candidates[i])))

\* a comparison that lets a later path of the same value replace the best one
betterOrEqual(value, compareValue) == value >= compareValue

\* if (value > compareValue)
better(value, compareValue) == value > compareValue

\* the loop "Find the file having the most common path with fileName":
\* the state after the first n paths, as [best, value]
RECURSIVE bestMatch(_, _, _)
bestMatch(paths, fileName, n) ==
    IF n = 0 THEN [best |-> Empty, value |-> 0]
    ELSE LET prev == bestMatch(paths, fileName, n - 1)
             value == commonFilePathLength(paths[n], fileName)
         IN  IF better(value, prev.value)
             THEN [best |-> paths[n], value |-> value]
             ELSE prev

\* cache[a] = b; cache[b] = a;
cacheBoth(c, a, b) == [[c EXCEPT ![a] = b] EXCEPT ![b] = a]

\* a same-directory loop that keeps the last candidate that exists
lastExisting(found) == Max(found)

\* the same-directory loop returns at the first candidate that exists
firstExisting(found) == Min(found)

\* One call of correspondingHeaderSource on the document named fileName, with the
\* cache c, the files d on disk and the project listing proj. Yields the returned
\* path (Empty for {}), the cache afterwards, and what the call did:
\* hit (returned at the cache test), probes (QFile::exists calls), scanned
\* (whether the project listing was asked for).
correspondingHeaderSource(fileName, c, d, proj) ==
    LET cacheData == c[fileName]
        header == isHeaderFile(fileName)
        suffixes == matchingSuffixes(header)
        candidates == candidateFileNames(completeBaseName(fileName), suffixes)
        testFileName(i) == absolutePath(fileName) \o <<"/">> \o candidates[i]
        found == {i \in 1..Len(candidates) : testFileName(i) \in d}
        fullPathNames == eraseNotCandidate(allFilesWithExtensions(proj, suffixes), candidates)
        bestFileName == bestMatch(fullPathNames, fileName, Len(fullPathNames)).best
    IN  IF cacheData # Empty
        THEN [path |-> cacheData, cache |-> c, hit |-> TRUE, probes |-> 0, scanned |-> FALSE]
        ELSE IF found # {}
        THEN [path |-> testFileName(firstExisting(found)),
              cache |-> cacheBoth(c, fileName, testFileName(firstExisting(found))),
              hit |-> FALSE, probes |-> firstExisting(found), scanned |-> FALSE]
        ELSE IF bestFileName # Empty
        THEN [path |-> bestFileName,
              cache |-> cacheBoth(c, fileName, bestFileName),
              hit |-> FALSE, probes |-> Len(candidates), scanned |-> TRUE]
        ELSE [path |-> Empty, cache |-> c, hit |-> FALSE,
              probes |-> Len(candidates), scanned |-> TRUE]

NoSettings == [tag |-> Empty, debug |-> Empty, return_values |-> <<>>]

NoCall == [file |-> Empty, path |-> Empty, hit |-> FALSE, probes |-> 0, scanned |-> FALSE,
           first |-> Empty, prevFile |-> Empty, prevPath |-> Empty]

\* The document stays as constructed while the resolver is exercised.
IdleDoc ==
    /\ text = Empty /\ cursor = 0 /\ anchor = 0 /\ docFile = Empty
    /\ fnStart = -1 /\ settings = NoSettings /\ hist = <<>> /\ peer = Empty /\ opened = {}

\* The directories a project may be rooted at
ProjectRoots == { <<"/">>, <<"/","a","/">>, <<"/","b","/">> }

\* The cache is a function-local static: empty when the process starts. Any set of
\* the files may exist; the project lists the existing files under its root, in
\* either order.
InitResolver ==
    /\ cache = [f \in Files |-> Empty]
    /\ disk \in SUBSET Files
    /\ \E root \in ProjectRoots, rev \in BOOLEAN :
          project = SelectSeq(IF rev THEN Reverse(Universe) ELSE Universe,
                              LAMBDA p : p \in disk /\ startsWith(p, root))
    /\ lastCall = NoCall
    /\ firstRet = [f \in Files |-> Empty]
    /\ IdleDoc

\* A document opened from the existing file f calls correspondingHeaderSource().
Resolve(f) ==
    LET r == correspondingHeaderSource(f, cache, disk, project)
    IN  /\ f \in disk
        /\ cache' = r.cache
        /\ lastCall' = [file |-> f, path |-> r.path, hit |-> r.hit, probes |-> r.probes,
                        scanned |-> r.scanned, first |-> firstRet[f],
                        prevFile |-> lastCall.file, prevPath |-> lastCall.path]
        /\ firstRet' = IF firstRet[f] = Empty THEN [firstRet EXCEPT ![f] = r.path]
                       ELSE firstRet
        /\ UNCHANGED <<disk, project>>
        /\ UNCHANGED docVars

NextResolver == \E f \in Files : Resolve(f)

Spec == InitResolver /\ [][NextResolver]_vars

----------------------------------------------------------------------------
(* Claims about the resolver, checked under Spec *)

\* the first candidate of the opposite role that exists in f's own directory, Empty if none
sameDirCounterpart(f) ==
    LET candidates == candidateFileNames(completeBaseName(f), matchingSuffixes(isHeaderFile(f)))
        found == {i \in 1..Len(candidates) :
                     absolutePath(f) \o <<"/">> \o candidates[i] \in disk}
    IN  IF found = {} THEN Empty
        ELSE absolutePath(f) \o <<"/">> \o candidates[Min(found)]

\* C1: after any sequence of correspondingHeaderSource calls the cache is symmetric:
\* every entry cache[a] = b comes with the entry cache[b] = a.
C1_CacheSymmetric ==
    \A a \in Files : cache[a] # Empty => cache[cache[a]] = a

\* C2: when a call on a returned the counterpart b, the next call, made on b,
\* returns a from the cache: no file-existence probe, no project-wide scan.
C2_ReverseLookupFromCache ==
    (lastCall.prevPath # Empty /\ lastCall.file = lastCall.prevPath)
        => /\ lastCall.path = lastCall.prevFile
           /\ lastCall.hit
           /\ lastCall.probes = 0
           /\ ~lastCall.scanned

\* an immediately repeated call on the same file returns the same path from the cache
RepeatedCallCached ==
    (lastCall.prevFile = lastCall.file /\ lastCall.prevPath # Empty)
        => /\ lastCall.path = lastCall.prevPath
           /\ lastCall.hit
           /\ lastCall.probes = 0
           /\ ~lastCall.scanned

\* C3 as stated: whenever a counterpart exists in the file's own directory, the call
\* returns the first such candidate without consulting the project listing, and an
\* immediately repeated call returns the same path from the cache.
C3_SameDirAlways ==
    /\ (lastCall.file # Empty /\ sameDirCounterpart(lastCall.file) # Empty)
          => /\ lastCall.path = sameDirCounterpart(lastCall.file)
             /\ ~lastCall.scanned
    /\ RepeatedCallCached

\* C3 amended: the same, for a call that finds no cache entry for its file.
C3_SameDirOnCacheMiss ==
    /\ (lastCall.file # Empty /\ ~lastCall.hit /\ sameDirCounterpart(lastCall.file) # Empty)
          => /\ lastCall.path = sameDirCounterpart(lastCall.file)
             /\ ~lastCall.scanned
    /\ RepeatedCallCached

\* a header with both x.c and x.cpp beside it resolved, on a cache miss, to x.c
C3_Witness ==
    /\ lastCall.file = Universe[2]
    /\ ~lastCall.hit
    /\ {Universe[1], Universe[3]} \subseteq disk
    /\ lastCall.path = Universe[3]

\* C4: once a call on f has returned a non-empty path, every later call on f
\* returns that path.
C4_FirstAnswerKept ==
    lastCall.first # Empty => lastCall.path = lastCall.first

----------------------------------------------------------------------------
(* QTextDocument / QTextCursor *)

Newline == "\n"

\* QTextDocument::characterCount(): the text plus the final paragraph separator
characterCount(t) == Len(t) + 1

\* QTextDocument::characterAt(pos): the paragraph separator closes the last block,
\* a null QChar is returned outside the document
characterAt(t, pos) ==
    IF 0 <= pos /\ pos < Len(t) THEN t[pos + 1]
    ELSE IF pos = Len(t) THEN "PS"
    ELSE "NUL"

\* QTextCursor::movePosition(StartOfLine): offset of the start of pos's line
startOfLine(t, pos) ==
    LET nl == {i \in 1..pos : t[i] = Newline}
    IN  IF nl = {} THEN 0 ELSE Max(nl)

\* QTextCursor::movePosition(EndOfLine): offset of the end of pos's line
endOfLine(t, pos) ==
    LET nl == {i \in (pos + 1)..Len(t) : t[i] = Newline}
    IN  IF nl = {} THEN Len(t) ELSE Min(nl) - 1

\* QTextCursor::movePosition(Up): same column of the previous line (clipped to that
\* line's length); the position is kept when pos is on the first line
moveUp(t, pos) ==
    LET sol == startOfLine(t, pos)
        prev == startOfLine(t, sol - 1)
        col == pos - sol
    IN  IF sol = 0 THEN pos
        ELSE IF prev + col > sol - 1 THEN sol - 1 ELSE prev + col

\* QTextCursor::movePosition(Down): same column of the next line (clipped to that
\* line's length); the position is kept when pos is on the last line
moveDown(t, pos) ==
    LET sol == startOfLine(t, pos)
        eol == endOfLine(t, pos)
        col == pos - sol
        nextEol == endOfLine(t, eol + 1)
    IN  IF eol = Len(t) THEN pos
        ELSE IF eol + 1 + col > nextEol THEN nextEol ELSE eol + 1 + col

\* QTextCursor::insertText(s) at offset pos
insertText(t, pos, s) == SubSeq(t, 1, pos) \o s \o SubSeq(t, pos + 1, Len(t))

\* QTextCursor::removeSelectedText() of the selection between offsets a and b
removeText(t, a, b) ==
    LET lo == IF a < b THEN a ELSE b
        hi == IF a < b THEN b ELSE a
    IN  SubSeq(t, 1, lo) \o SubSeq(t, hi + 1, Len(t))

\* the observation window: the last two operations
remember(h, r) == IF Len(h) < 2 THEN Append(h, r) ELSE <<h[2], r>>

\* the observation of a run of a bounded number of operations: all of them
record(h, r) == Append(h, r)

\* what an operation records: its name, argument, result and the state it started from
Call(name, arg, result) ==
    [op |-> name, arg |-> arg, ret |-> result,
     text |-> text, cursor |-> cursor, anchor |-> anchor]

----------------------------------------------------------------------------
(* DelimiterNavigator: CppDocument::moveBlock and gotoBlockStart / gotoBlockEnd *)

NextCharacter == "NextCharacter"
PreviousCharacter == "PreviousCharacter"

OpenDelims == {"(", "{", "["}
CloseDelims == {")", "}", "]"}

incCounterChar(direction) == IF direction = NextCharacter THEN OpenDelims ELSE CloseDelims
decCounterChar(direction) == IF direction = PreviousCharacter THEN OpenDelims ELSE CloseDelims

\* a moveBlock whose extremity test returns the first position it would look at
extremityResultShifted(startPos, inc) == startPos + inc

\* if (startPos == lastPos) return startPos;
extremityResult(startPos, inc) == startPos

\* the while loop of moveBlock, from position pos with the counter at counter
RECURSIVE scanBlock(_, _, _, _, _)
scanBlock(t, startPos, direction, pos, counter) ==
    LET inc == IF direction = NextCharacter THEN 1 ELSE -1
        lastPos == IF direction = NextCharacter THEN characterCount(t) - 1 ELSE 0
        hitLastChar == IF direction = NextCharacter THEN pos >= lastPos ELSE pos <= lastPos
        currentChar == characterAt(t, pos)
    IN  IF hitLastChar THEN startPos
        ELSE IF currentChar \in incCounterChar(direction)
             THEN scanBlock(t, startPos, direction, pos + inc, counter + 1)
        ELSE IF currentChar \in decCounterChar(direction)
             THEN IF counter - 1 < 0
                  THEN pos + (IF inc > 0 THEN inc ELSE 0)
                  ELSE scanBlock(t, startPos, direction, pos + inc, counter - 1)
        ELSE scanBlock(t, startPos, direction, pos + inc, counter)

moveBlock(t, startPos, direction) ==
    LET inc == IF direction = NextCharacter THEN 1 ELSE -1
        lastPos == IF direction = NextCharacter THEN characterCount(t) - 1 ELSE 0
        pos0 == startPos + inc
        pos1 == IF characterAt(t, pos0) \in incCounterChar(direction) THEN pos0 + inc ELSE pos0
    IN  IF startPos = lastPos THEN extremityResult(startPos, inc)
        ELSE scanBlock(t, startPos, direction, pos1 + inc, 0)

\* while (count != 0) { cursor.setPosition(moveBlock(cursor.position(), direction)); --count; }
RECURSIVE repeatMoveBlock(_, _, _, _)
repeatMoveBlock(t, pos, direction, count) ==
    IF count = 0 THEN pos
    ELSE repeatMoveBlock(t, moveBlock(t, pos, direction), direction, count - 1)

\* int count: the largest value of a 32-bit int; the smallest is -IntMax - 1
IntMax == 2147483647

\* a call that does not return, where a position is recorded for one that does
NeverReturns == -1

\* the positions moveBlock visits from the last of seen, up to and including the
\* first position it visits for the second time
RECURSIVE blockOrbit(_, _, _)
blockOrbit(t, direction, seen) ==
    the({ IF \E i \in 1..Len(seen) : seen[i] = nxt
          THEN Append(seen, nxt)
          ELSE blockOrbit(t, direction, Append(seen, nxt)) :
          nxt \in {moveBlock(t, seen[Len(seen)], direction)} })

\* the position after n runs of the loop body from pos, for n up to IntMax: the
\* positions repeat from the first one that is visited twice
movedTimes(t, pos, direction, n) ==
    the({ LET first == Min({i \in 1..Len(orbit) : orbit[i] = orbit[Len(orbit)]})
              period == Len(orbit) - first
          IN  IF n < Len(orbit) THEN orbit[n + 1]
              ELSE orbit[first + ((n - first + 1) % period)] :
          orbit \in {blockOrbit(t, direction, <<pos>>)} })

\* while (count != 0) { ...; --count; } as the build runs it: what the cursor is at
\* when the loop is left. A count below zero is decremented down to the smallest
\* int, after count + IntMax + 1 runs of the body; the next --count overflows,
\* which is undefined: either the count wraps to IntMax and the loop runs IntMax
\* times more, or the loop is never left.
blockLoop(t, pos, direction, count) ==
    IF count >= 0 THEN {repeatMoveBlock(t, pos, direction, count)}
    ELSE {NeverReturns,
          movedTimes(t, moveBlock(t, movedTimes(t, pos, direction, (count + 1) + IntMax),
                                  direction),
                     direction, IntMax)}

\* the largest count the navigation operations are called with
MaxCount == 2

\* the longest bracket text the navigator is exercised on
MaxBlockLen == 3

BlockAlphabet == {"{", "}", "(", ")", "x"}

\* every text over BlockAlphabet of length n
RECURSIVE TextsOfLen(_)
TextsOfLen(n) ==
    IF n = 0 THEN {<<>>}
    ELSE {Append(s, c) : s \in TextsOfLen(n - 1), c \in BlockAlphabet}

BlockTexts == UNION {TextsOfLen(n) : n \in 0..MaxBlockLen}

InitBlock ==
    /\ text \in BlockTexts
    /\ cursor \in 0..Len(text)
    /\ anchor = cursor
    /\ docFile = Empty /\ fnStart = -1 /\ settings = NoSettings /\ hist = <<>> /\ peer = Empty /\ opened = {}
    /\ cache = [f \in Files |-> Empty] /\ disk = {} /\ project = <<>>
    /\ lastCall = NoCall /\ firstRet = [f \in Files |-> Empty]

\* a call that does not return leaves nothing to follow it
loopLeft == IF hist = <<>> THEN TRUE ELSE hist[Len(hist)].ret # NeverReturns

GotoBlockStart(count) ==
    /\ loopLeft
    /\ \E pos \in blockLoop(text, cursor, PreviousCharacter, count) :
          /\ cursor' = (IF pos = NeverReturns THEN cursor ELSE pos)
          /\ anchor' = (IF pos = NeverReturns THEN anchor ELSE pos)
          /\ hist' = remember(hist, Call("gotoBlockStart", count, pos))
    /\ UNCHANGED <<text, docFile, fnStart, settings, peer, opened>>
    /\ UNCHANGED resolverVars

GotoBlockEnd(count) ==
    /\ loopLeft
    /\ \E pos \in blockLoop(text, cursor, NextCharacter, count) :
          /\ cursor' = (IF pos = NeverReturns THEN cursor ELSE pos)
          /\ anchor' = (IF pos = NeverReturns THEN anchor ELSE pos)
          /\ hist' = remember(hist, Call("gotoBlockEnd", count, pos))
    /\ UNCHANGED <<text, docFile, fnStart, settings, peer, opened>>
    /\ UNCHANGED resolverVars

NextBlock ==
    \E count \in 1..MaxCount :
        \/ GotoBlockStart(count)
        \/ GotoBlockEnd(count)

SpecBlock == InitBlock /\ [][NextBlock]_vars

----------------------------------------------------------------------------
(* Claims about the navigator, checked under SpecBlock *)

closerOf(c) == CASE c = "(" -> ")" [] c = "{" -> "}" [] c = "[" -> "]" [] OTHER -> "NUL"

\* the delimiter pairs of t as <<offset of opener, offset of closer>>, and whether
\* every delimiter of t is matched by one of its own kind
RECURSIVE parseBlocks(_, _, _, _)
parseBlocks(t, i, stack, pairs) ==
    IF i > Len(t) THEN [ok |-> stack = <<>>, pairs |-> pairs]
    ELSE IF t[i] \in OpenDelims THEN parseBlocks(t, i + 1, <<i>> \o stack, pairs)
    ELSE IF t[i] \in CloseDelims
         THEN IF stack = <<>> \/ closerOf(t[stack[1]]) # t[i]
              THEN [ok |-> FALSE, pairs |-> {}]
              ELSE parseBlocks(t, i + 1, Tail(stack), pairs \cup {<<stack[1] - 1, i - 1>>})
    ELSE parseBlocks(t, i + 1, stack, pairs)

Balanced(t) == parseBlocks(t, 1, <<>>, {}).ok
Blocks(t) == parseBlocks(t, 1, <<>>, {}).pairs

\* the blocks a cursor at offset pos is inside: after the opener, not after the closer
Enclosing(t, pos) == {b \in Blocks(t) : b[1] < pos /\ pos <= b[2]}

\* C5: moveBlock returns startPos when startPos is the extremity in the direction of
\* travel (0 backward, characterCount - 1 forward), whatever the text; so gotoBlockStart
\* from 0 and gotoBlockEnd from the last offset stay there, however often repeated.
C5_ExtremityIsNoOp ==
    /\ moveBlock(text, 0, PreviousCharacter) = 0
    /\ moveBlock(text, characterCount(text) - 1, NextCharacter) = characterCount(text) - 1
    /\ \A i \in 1..Len(hist) :
          /\ (hist[i].op = "gotoBlockStart" /\ hist[i].cursor = 0) => hist[i].ret = 0
          /\ (hist[i].op = "gotoBlockEnd" /\ hist[i].cursor = characterCount(hist[i].text) - 1)
                => hist[i].ret = hist[i].cursor

C5_Witness ==
    /\ Len(hist) = 2
    /\ Len(text) = MaxBlockLen
    /\ hist[1].op = "gotoBlockEnd" /\ hist[1].arg = MaxCount
    /\ hist[1].cursor = Len(text) /\ hist[1].ret = Len(text)
    /\ hist[2].op = "gotoBlockEnd"
    /\ hist[2].cursor = Len(text) /\ hist[2].ret = Len(text)
    /\ text[Len(text)] = "}"

\* C6: on balanced text, with the cursor inside a block, gotoBlockStart lands on the
\* opening delimiter of a block B the cursor is in, and gotoBlockEnd from there lands
\* just past B's closing delimiter.
C6_BlockRoundTrip ==
    ( /\ Len(hist) = 2
      /\ hist[1].op = "gotoBlockStart" /\ hist[1].arg = 1
      /\ hist[2].op = "gotoBlockEnd" /\ hist[2].arg = 1
      /\ Balanced(text)
      /\ Enclosing(text, hist[1].cursor) # {} )
    => \E b \in Enclosing(text, hist[1].cursor) :
          /\ hist[1].ret = b[1]
          /\ hist[2].ret = b[2] + 1

----------------------------------------------------------------------------
(* StructuralMutator: CppDocument::toggleSection *)

endifString(tag) == <<"#", "e", "n", "d", "i", "f", " ", "/", "/", " ">> \o tag
ifdefString(tag) == <<"#", "i", "f", "d", "e", "f", " ">> \o tag
elseString(tag) == <<"#", "e", "l", "s", "e", " ", "/", "/", " ">> \o tag

\* CodeDocument::tab(): one indentation unit
tab == <<" ", " ", " ", " ">>

\* QTextDocument::find(subString, cursor, FindBackward) called with the search
\* starting at offset from: the start offset of the last occurrence that begins
\* before from, -1 (a null cursor's selectionStart) if there is none
findBackward(t, sub, from) ==
    LET hits == {i \in 0..(from - 1) :
                    i + Len(sub) <= Len(t) /\ SubSeq(t, i + 1, i + Len(sub)) = sub}
    IN  IF hits = {} THEN -1 ELSE Max(hits)

\* offset of the '}' that closes the '{' at offset open, -1 if none
RECURSIVE closingBrace(_, _, _)
closingBrace(t, pos, depth) ==
    IF pos >= Len(t) THEN -1
    ELSE IF t[pos + 1] = "{" THEN closingBrace(t, pos + 1, depth + 1)
    ELSE IF t[pos + 1] = "}"
         THEN IF depth = 1 THEN pos ELSE closingBrace(t, pos + 1, depth - 1)
    ELSE closingBrace(t, pos + 1, depth)

\* The function symbol of the document as the symbol provider reports it: it starts
\* at fnStart and ends just after the brace closing its body; its return type is the
\* first word of its text. valid is FALSE when the document holds no function.
functionSymbol(t, start) ==
    LET open == indexOfChar(t, "{", start)
        close == IF open < 0 THEN -1 ELSE closingBrace(t, open + 1, 1)
        sp == indexOfChar(t, " ", start)
    IN  IF start < 0 \/ open < 0 \/ close < 0
        THEN [valid |-> FALSE, start |-> 0, end |-> 0, returnType |-> Empty]
        ELSE [valid |-> TRUE, start |-> start, end |-> close + 1,
              returnType |-> IF sp < 0 \/ sp > open THEN Empty
                             ELSE SubSeq(t, start + 1, sp)]

\* TextRange::contains(pos)
rangeContains(r, pos) == pos >= r.start /\ pos <= r.end

\* CodeDocument::currentSymbol(isFunction): the function the cursor is in
currentSymbol(t, start, pos) ==
    LET sym == functionSymbol(t, start)
    IN  IF sym.valid /\ rangeContains(sym, pos) THEN sym
        ELSE [valid |-> FALSE, start |-> 0, end |-> 0, returnType |-> Empty]

\* the return statement toggleSection writes for a return type
returnStatement(returnType, return_values) ==
    IF \E i \in 1..Len(return_values) : return_values[i].type = returnType
    THEN LET i == Min({j \in 1..Len(return_values) : return_values[j].type = returnType})
         IN  tab \o <<"r", "e", "t", "u", "r", "n", " ">> \o return_values[i].value \o <<";", Newline>>
    ELSE IF returnType = Empty \/ returnType = <<"v", "o", "i", "d">>
    THEN tab \o <<"r", "e", "t", "u", "r", "n", ";", Newline>>
    ELSE IF returnType[Len(returnType)] = "*"
    THEN tab \o <<"r", "e", "t", "u", "r", "n", " ", "n", "u", "l", "l", "p", "t", "r", ";", Newline>>
    ELSE tab \o <<"r", "e", "t", "u", "r", "n", " ", "{", "}", ";", Newline>>

\* the text toggleSection inserts before the function's closing brace
elseScaffolding(sym, cfg) ==
    elseString(cfg.tag) \o <<Newline>>
    \o (IF cfg.debug # Empty THEN tab \o cfg.debug \o <<";", Newline>> ELSE Empty)
    \o returnStatement(sym.returnType, cfg.return_values)
    \o endifString(cfg.tag) \o <<Newline>>

\* cursor.setPosition(moveBlock(...)); cursor.movePosition(NextCharacter):
\* the #ifdef line goes right after the opening brace
ifdefInsertPos(q) == q + 1

\* TextDocument::setPosition(newPos) after textEdit()->setTextCursor(cursor):
\* QTextCursor::setPosition ignores a position outside the document
setPositionFrom(t, current, newPos) ==
    IF newPos >= 0 /\ newPos <= Len(t) THEN newPos ELSE current

\* toggleSection without a selection, for the function sym: the text and the cursor
\* afterwards, and which branch ran
toggleFunction(t, pos, sym, cfg) ==
    LET endif == endifString(cfg.tag)
        ifdef == ifdefString(cfg.tag)
        c1 == startOfLine(t, sym.end)
        c2 == moveUp(t, c1)
        selected == SubSeq(t, c2 + 1, c1)
    IN  IF startsWith(selected, endif)
        THEN \* the function is already commented out, remove the comments
             LET start == findBackward(t, elseString(cfg.tag), c2)
                 p == IF start > sym.start THEN start ELSE c2
                 t1 == removeText(t, c1, p)
                 q == moveBlock(t1, p, PreviousCharacter)
                 d1 == moveDown(t1, q)
                 d2 == startOfLine(t1, d1)
                 d3 == moveDown(t1, d2)
                 t2 == removeText(t1, d2, d3)
             IN  [text |-> t2,
                  cursor |-> setPositionFrom(t2, d2, pos - (Len(ifdef) + 1)),
                  branch |-> "removed"]
        ELSE \* comment out the function with #ifdef / #else / #endif
             LET p == sym.end - 1
                 sc == elseScaffolding(sym, cfg)
                 t1 == insertText(t, p, sc)
                 q == moveBlock(t1, p + Len(sc), PreviousCharacter)
                 at == IF q < Len(t1) THEN ifdefInsertPos(q) ELSE q
                 t2 == insertText(t1, at, <<Newline>> \o ifdef)
             IN  [text |-> t2,
                  cursor |-> setPositionFrom(t2, at + 1 + Len(ifdef), pos + Len(ifdef) + 1),
                  branch |-> "inserted"]

\* TextDocument::convertPosition(pos, &line, &col): 1-based line and column
lineOf(t, pos) == Cardinality({i \in 1..pos : t[i] = Newline}) + 1
columnOf(t, pos) == pos - startOfLine(t, pos) + 1

\* TextDocument::gotoLine(line): the start of that line, of the last line if there
\* are fewer
gotoLine(t, line) ==
    LET starts == {0} \cup {i \in 1..Len(t) : t[i] = Newline}
        n == IF line < Cardinality(starts) THEN line ELSE Cardinality(starts)
    IN  CHOOSE p \in starts : Cardinality({x \in starts : x < p}) = n - 1

\* toggleSection with a selection: just add #ifdef / #endif around its lines
toggleSelection(t, selStart, selEnd, cfg) ==
    LET min == IF selStart < selEnd THEN selStart ELSE selEnd
        max == IF selStart < selEnd THEN selEnd ELSE selStart
        line == lineOf(t, max)
        col == columnOf(t, max)
        e == endOfLine(t, IF col = 1 THEN max - 1 ELSE max)
        t1 == insertText(t, e, <<Newline>> \o endifString(cfg.tag))
        b == startOfLine(t1, min)
        t2 == insertText(t1, b, ifdefString(cfg.tag) \o <<Newline>>)
    IN  [text |-> t2, cursor |-> gotoLine(t2, line + 3), branch |-> "selection"]


\* the longest text toggleSection is applied to
MaxToggleLen == 90

\* the documents toggleSection is exercised on: one function, with its braces on
\* their own lines or on the lines of the signature and of the body
ReturnTypes == {<<"v", "o", "i", "d">>, <<"i", "n", "t">>, <<"T", "*">>, <<"b", "o", "o", "l">>}
Spaces == {<<" ">>, <<Newline>>}
Suffixes == {Empty, <<Newline, "i", ";">>}

FunctionTexts ==
    {rt \o <<" ", "f", "(", ")">> \o s1 \o <<"{">> \o s2 \o <<"x", ";">> \o s3 \o <<"}">> \o sf :
        rt \in ReturnTypes, s1 \in Spaces, s2 \in Spaces, s3 \in Spaces, sf \in Suffixes}

ToggleSettings ==
    {[tag |-> <<"T">>, debug |-> dbg,
      return_values |-> << [type |-> <<"i", "n", "t">>, value |-> <<"0">>] >>] :
        dbg \in {Empty, <<"d", "(", ")">>}}

InitToggle ==
    /\ text \in FunctionTexts
    /\ fnStart = 0
    /\ cursor \in 0..Len(text)
    /\ anchor \in {cursor, 0, Len(text)}
    /\ settings \in ToggleSettings
    /\ docFile = Empty /\ hist = <<>> /\ peer = Empty /\ opened = {}
    /\ cache = [f \in Files |-> Empty] /\ disk = {} /\ project = <<>>
    /\ lastCall = NoCall /\ firstRet = [f \in Files |-> Empty]

ToggleSection ==
    /\ Len(text) <= MaxToggleLen
    /\ IF anchor # cursor
       THEN LET r == toggleSelection(text, anchor, cursor, settings)
                min == IF anchor < cursor THEN anchor ELSE cursor
                max == IF anchor < cursor THEN cursor ELSE anchor
                e == endOfLine(text, IF columnOf(text, max) = 1 THEN max - 1 ELSE max)
                b == startOfLine(text, min)
            IN  /\ text' = r.text
                /\ cursor' = r.cursor
                /\ anchor' = r.cursor
                /\ fnStart' = fnStart
                              + (IF b <= fnStart THEN Len(ifdefString(settings.tag)) + 1 ELSE 0)
                              + (IF e <= fnStart THEN Len(endifString(settings.tag)) + 1 ELSE 0)
                /\ hist' = remember(hist, Call("toggleSection", 0, r.branch))
       ELSE LET sym == currentSymbol(text, fnStart, cursor)
                r == toggleFunction(text, cursor, sym, settings)
            IN  IF ~sym.valid
                THEN /\ hist' = remember(hist, Call("toggleSection", 0, "none"))
                     /\ UNCHANGED <<text, cursor, anchor, fnStart>>
                ELSE /\ text' = r.text
                     /\ cursor' = r.cursor
                     /\ anchor' = r.cursor
                     /\ fnStart' = fnStart
                     /\ hist' = remember(hist, Call("toggleSection", 0, r.branch))
    /\ UNCHANGED <<docFile, settings, peer, opened>>
    /\ UNCHANGED resolverVars

NextToggle == ToggleSection

SpecToggle == InitToggle /\ [][NextToggle]_vars

----------------------------------------------------------------------------
(* Claims about toggleSection, checked under SpecToggle *)

\* C7: with no selection and the cursor inside a function, two applications of
\* toggleSection, the first of which inserts the scaffolding, leave the text as it
\* was before the first.
C7_ToggleTwiceRestores ==
    ( /\ Len(hist) = 2
      /\ hist[1].op = "toggleSection" /\ hist[1].ret = "inserted"
      /\ hist[2].op = "toggleSection" /\ hist[2].ret # "none" )
    => text = hist[1].text

----------------------------------------------------------------------------
(* StructuralMutator: insertInclude, removeInclude, insertForwardDeclaration *)

IncludeKeyword == <<"#", "i", "n", "c", "l", "u", "d", "e">>

\* the offsets at which the lines of t start
lineStarts(t) == {0} \cup {i \in 1..Len(t) : t[i] = Newline}

\* offset of the start of the 1-based line n (of the last line if there are fewer)
lineStart(t, n) == gotoLine(t, n)

\* the text of the line starting at offset ls, without its line break
lineText(t, ls) == SubSeq(t, ls + 1, endOfLine(t, ls))

\* s without its leading blanks
RECURSIVE skipBlanks(_)
skipBlanks(s) == IF s # Empty /\ s[1] = " " THEN skipBlanks(Tail(s)) ELSE s

\* IncludeHelper::includeForText: an include is written <name> or "name"
wellFormedInclude(inc) ==
    /\ Len(inc) >= 2
    /\ \/ inc[1] = "<" /\ inc[Len(inc)] = ">"
       \/ inc[1] = "\"" /\ inc[Len(inc)] = "\""

\* IncludeHelper: the include a line holds, Empty if the line is no include directive
includeOfLine(l) ==
    IF startsWith(l, IncludeKeyword)
       /\ wellFormedInclude(skipBlanks(mid(l, Len(IncludeKeyword))))
    THEN skipBlanks(mid(l, Len(IncludeKeyword)))
    ELSE Empty

\* IncludeHelper: the 1-based numbers of the lines of t that hold an include
includeLines(t) ==
    {n \in 1..Cardinality(lineStarts(t)) : includeOfLine(lineText(t, lineStart(t, n))) # Empty}

\* IncludeHelper: the lines that end a group of consecutive includes
groupEnds(t) == {n \in includeLines(t) : n + 1 \notin includeLines(t)}

\* IncludeHelper::includePositionForRemoval(include): none for a malformed include,
\* else the line holding it, -1 when it is not included
includePositionForRemoval(t, inc) ==
    LET at == {n \in includeLines(t) : includeOfLine(lineText(t, lineStart(t, n))) = inc}
    IN  IF ~wellFormedInclude(inc) THEN [some |-> FALSE, line |-> 0]
        ELSE IF at = {} THEN [some |-> TRUE, line |-> -1]
        ELSE [some |-> TRUE, line |-> Min(at)]

\* IncludeHelper::includePositionForInsertion(include, newGroup): none for a malformed
\* include; else whether it already exists, or the line to insert at: after the last
\* include for a new group, after the group g chosen as the best one otherwise,
\* the first line when the document has no include
includePositionForInsertion(t, inc, newGroup, g) ==
    LET present == \E n \in includeLines(t) : includeOfLine(lineText(t, lineStart(t, n))) = inc
    IN  IF ~wellFormedInclude(inc)
        THEN [some |-> FALSE, exists |-> FALSE, line |-> 0, newGroup |-> FALSE]
        ELSE IF present
        THEN [some |-> TRUE, exists |-> TRUE, line |-> -1, newGroup |-> FALSE]
        ELSE IF includeLines(t) = {}
        THEN [some |-> TRUE, exists |-> FALSE, line |-> 1, newGroup |-> FALSE]
        ELSE IF newGroup
        THEN [some |-> TRUE, exists |-> FALSE, line |-> Max(includeLines(t)) + 1, newGroup |-> TRUE]
        ELSE [some |-> TRUE, exists |-> FALSE, line |-> g + 1, newGroup |-> FALSE]

\* TextDocument::insertAtLine(text, line): text goes in front of the 1-based line,
\* on a line of its own after the last line when the document has fewer lines
insertAtLine(t, s, line) ==
    IF line <= Cardinality(lineStarts(t))
    THEN insertText(t, lineStart(t, line), s)
    ELSE t \o <<Newline>> \o s

\* TextDocument::deleteLine(line): the 1-based line goes, with its line break
deleteLine(t, line) ==
    LET ls == lineStart(t, line)
        eol == endOfLine(t, ls)
    IN  IF eol < Len(t) THEN removeText(t, ls, eol + 1)
        ELSE removeText(t, IF ls > 0 THEN ls - 1 ELSE 0, eol)

\* an insertInclude that writes the directive whether or not it is already there
insertIncludeAlways(t, inc, newGroup, g) ==
    LET includePos == includePositionForInsertion(t, inc, newGroup, g)
    IN  IF ~includePos.some THEN [text |-> t, ret |-> FALSE]
        ELSE [text |-> insertAtLine(t, IncludeKeyword \o <<" ">> \o inc \o <<Newline>>,
                                    IF includePos.exists THEN 1 ELSE includePos.line),
              ret |-> TRUE]

\* CppDocument::insertInclude(include, newGroup); g is the group IncludeHelper picks
insertInclude(t, inc, newGroup, g) ==
    LET includePos == includePositionForInsertion(t, inc, newGroup, g)
        txt == (IF includePos.newGroup THEN <<Newline>> ELSE Empty)
               \o IncludeKeyword \o <<" ">> \o inc \o <<Newline>>
    IN  IF ~includePos.some THEN [text |-> t, ret |-> FALSE]
        ELSE IF includePos.exists THEN [text |-> t, ret |-> TRUE]
        ELSE [text |-> insertAtLine(t, txt, includePos.line), ret |-> TRUE]

\* a removeInclude that reports failure when the include is not there
removeIncludeStrict(t, inc) ==
    LET line == includePositionForRemoval(t, inc)
    IN  IF ~line.some THEN [text |-> t, ret |-> FALSE]
        ELSE IF line.line = -1 THEN [text |-> t, ret |-> FALSE]
        ELSE [text |-> deleteLine(t, line.line), ret |-> TRUE]

\* CppDocument::removeInclude(include)
removeInclude(t, inc) ==
    LET line == includePositionForRemoval(t, inc)
    IN  IF ~line.some THEN [text |-> t, ret |-> FALSE]
        ELSE IF line.line = -1 THEN [text |-> t, ret |-> TRUE]
        ELSE [text |-> deleteLine(t, line.line), ret |-> TRUE]


\* QChar::isLetterOrNumber on the characters that occur in the model's documents
LetterOrNumber ==
    {"a", "b", "c", "d", "e", "f", "g", "h", "i", "j", "k", "l", "m", "n", "o", "p", "q",
     "r", "s", "t", "u", "v", "w", "x", "y", "z", "A", "B", "C", "N", "T", "X", "H"}

\* QStringView::split("::")
RECURSIVE splitQualifiers(_)
splitQualifiers(s) ==
    LET i == indexOfStr(s, <<":", ":">>, 0)
    IN  IF i < 0 THEN <<s>>
        ELSE <<SubSeq(s, 1, i)>> \o splitQualifiers(mid(s, i + 2))

\* findInBlock with FindWholeWords: is there a whole-word occurrence of expr in the
\* line l at or after offset; after an occurrence that is no whole word the search
\* goes on one character past its end
RECURSIVE findWholeWordInLine(_, _, _)
findWholeWordInLine(l, expr, offset) ==
    LET idx == indexOfStr(l, expr, offset)
        end == idx + Len(expr)
    IN  IF offset > Len(l) \/ idx < 0 THEN FALSE
        ELSE IF \/ (idx # 0 /\ l[idx] \in LetterOrNumber)
                \/ (end # Len(l) /\ l[end + 1] \in LetterOrNumber)
             THEN findWholeWordInLine(l, expr, end + 1)
        ELSE TRUE

\* a search that never finds the declaration
findsNothing(t, expr) == FALSE

\* doc->find(result, cursor, QTextDocument::FindWholeWords) from the start: found or not
findWholeWords(t, expr) ==
    \E ls \in lineStarts(t) : findWholeWordInLine(lineText(t, ls), expr, 0)

\* doc->find(QRegularExpression("^#include\\s*"), cursor at End, FindBackward):
\* offset of the start of the last line that begins with #include, -1 if none
findLastInclude(t) ==
    LET hits == {ls \in lineStarts(t) : startsWith(lineText(t, ls), IncludeKeyword)}
    IN  IF Len(t) = 0 \/ hits = {} THEN -1 ELSE Max(hits)

\* a wrapping that puts the innermost qualifier outermost
RECURSIVE wrapNamespacesOutward(_, _)
wrapNamespacesOutward(qualifiers, result) ==
    IF qualifiers = <<>> THEN result
    ELSE <<"n", "a", "m", "e", "s", "p", "a", "c", "e", " ">> \o Head(qualifiers) \o <<" ", "{", Newline>>
         \o wrapNamespacesOutward(Tail(qualifiers), result) \o <<Newline, "}">>

\* for (qualifier : qualifierList) result = "namespace %1 {\n%2\n}".arg(qualifier, result)
RECURSIVE wrapNamespaces(_, _)
wrapNamespaces(qualifiers, result) ==
    IF qualifiers = <<>> THEN result
    ELSE wrapNamespaces(Tail(qualifiers),
            <<"n", "a", "m", "e", "s", "p", "a", "c", "e", " ">> \o Head(qualifiers) \o <<" ", "{", Newline>> \o result \o <<Newline, "}">>)

ClassKeyword == <<"c", "l", "a", "s", "s">>
StructKeyword == <<"s", "t", "r", "u", "c", "t">>

\* the keyword test of insertForwardDeclaration: the text before the first blank
classOrStructOf(fwddecl) == left(fwddecl, indexOfChar(fwddecl, " ", 0))

\* CppDocument::insertForwardDeclaration(fwddecl) on the document named file
insertForwardDeclaration(t, file, fwddecl) ==
    LET spacePos == indexOfChar(fwddecl, " ", 0)
        classOrStruct == classOrStructOf(fwddecl)
        qualifierList == Reverse(splitQualifiers(mid(fwddecl, spacePos + 1)))
        result == classOrStruct \o <<" ">> \o qualifierList[1] \o <<";">>
        wrapped == wrapNamespaces(Tail(qualifierList), result)
        inc == findLastInclude(t)
    IN  IF ~isHeaderFile(file) THEN [text |-> t, ret |-> FALSE]
        ELSE IF fwddecl = Empty \/ (classOrStruct # ClassKeyword /\ classOrStruct # StructKeyword)
        THEN [text |-> t, ret |-> FALSE]
        ELSE IF findWholeWords(t, result) THEN [text |-> t, ret |-> FALSE]
        ELSE IF inc >= 0
        THEN [text |-> insertText(t, endOfLine(t, inc), <<Newline, Newline>> \o wrapped),
              ret |-> TRUE]
        ELSE [text |-> t, ret |-> FALSE]

\* the most operations applied to a document
MaxOps == 2

\* the documents the include operations start from
IncludeDocs ==
    {Empty,
     <<"#", "i", "n", "c", "l", "u", "d", "e", " ", "<", "a", ">", Newline>>,
     <<"#", "i", "n", "c", "l", "u", "d", "e", " ", "<", "v", "e", "c", "t", "o", "r", ">", Newline>>,
     <<"c", "l", "a", "s", "s", " ", "B", ";", Newline>>,
     <<"#", "i", "n", "c", "l", "u", "d", "e", " ", "<", "a", ">", Newline, "c", "l", "a", "s", "s", " ", "B", ";", Newline>>,
     <<"#", "i", "n", "c", "l", "u", "d", "e", " ", "<", "a", ">", Newline, "#", "i", "n", "c", "l", "u", "d", "e", " ", "<", "v", "e", "c", "t", "o", "r", ">", Newline>>,
     <<"#", "i", "n", "c", "l", "u", "d", "e", " ", "<", "a", ">", Newline, Newline, "#", "i", "n", "c", "l", "u", "d", "e", " ", "<", "v", "e", "c", "t", "o", "r", ">", Newline>>}

InsertArgs == {<<"<", "a", ">">>, <<"a", ">">>}
RemoveArgs == {<<"<", "a", ">">>, <<"\"", "b", "\"">>, <<"a", ">">>}
ForwardArgs == {<<"c", "l", "a", "s", "s", " ", "B">>, <<"s", "t", "r", "u", "c", "t", " ", "N", ":", ":", "M", ":", ":", "C">>,
                <<"c", "l", "a", "s", "s", " ", "F", "o", "o", ":", ":", "B", "a", "r">>, <<"c", "l", "a", "s", "s">>, <<"B">>}
DocFiles == {Universe[1], Universe[2]}

InitInclude ==
    /\ text \in IncludeDocs
    /\ docFile \in DocFiles
    /\ cursor = 0 /\ anchor = 0
    /\ fnStart = -1 /\ settings = NoSettings /\ hist = <<>> /\ peer = Empty /\ opened = {}
    /\ cache = [f \in Files |-> Empty] /\ disk = {} /\ project = <<>>
    /\ lastCall = NoCall /\ firstRet = [f \in Files |-> Empty]

InsertInclude(inc, newGroup) ==
    /\ Len(hist) < MaxOps
    /\ \E g \in (IF groupEnds(text) = {} THEN {0} ELSE groupEnds(text)) :
          LET r == insertInclude(text, inc, newGroup, g)
          IN  /\ text' = r.text
              /\ hist' = record(hist, Call("insertInclude", inc, r.ret))
    /\ UNCHANGED <<cursor, anchor, docFile, fnStart, settings, peer, opened>>
    /\ UNCHANGED resolverVars

RemoveInclude(inc) ==
    /\ Len(hist) < MaxOps
    /\ LET r == removeInclude(text, inc)
       IN  /\ text' = r.text
           /\ hist' = record(hist, Call("removeInclude", inc, r.ret))
    /\ UNCHANGED <<cursor, anchor, docFile, fnStart, settings, peer, opened>>
    /\ UNCHANGED resolverVars

InsertForwardDeclaration(fwddecl) ==
    /\ Len(hist) < MaxOps
    /\ LET r == insertForwardDeclaration(text, docFile, fwddecl)
       IN  /\ text' = r.text
           /\ hist' = record(hist, Call("insertForwardDeclaration", fwddecl, r.ret))
    /\ UNCHANGED <<cursor, anchor, docFile, fnStart, settings, peer, opened>>
    /\ UNCHANGED resolverVars

NextInclude ==
    \/ \E inc \in InsertArgs, newGroup \in BOOLEAN : InsertInclude(inc, newGroup)
    \/ \E inc \in RemoveArgs : RemoveInclude(inc)
    \/ \E fwddecl \in ForwardArgs : InsertForwardDeclaration(fwddecl)

SpecInclude == InitInclude /\ [][NextInclude]_vars

----------------------------------------------------------------------------
(* Claims about the include and forward-declaration mutators, under SpecInclude *)

\* C8: insertInclude is idempotent: a second insertInclude of the same well-formed
\* include leaves the text as the first call left it, and both calls return TRUE.
C8_InsertIncludeIdempotent ==
    ( /\ Len(hist) >= 2
      /\ hist[Len(hist) - 1].op = "insertInclude" /\ hist[Len(hist)].op = "insertInclude"
      /\ hist[Len(hist) - 1].arg = hist[Len(hist)].arg
      /\ wellFormedInclude(hist[Len(hist)].arg) )
    => /\ hist[Len(hist) - 1].ret = TRUE
       /\ hist[Len(hist)].ret = TRUE
       /\ text = hist[Len(hist)].text

\* the first call inserted the include, the second found it
C8_Witness ==
    /\ Len(hist) = 2
    /\ hist[1].op = "insertInclude" /\ hist[2].op = "insertInclude"
    /\ hist[1].arg = hist[2].arg
    /\ hist[1].ret = TRUE /\ hist[2].ret = TRUE
    /\ hist[2].text # hist[1].text
    /\ text = hist[2].text

\* C9: removeInclude of a well-formed include that the file does not hold returns
\* TRUE and leaves the text unchanged.
C9_RemoveAbsentInclude ==
    \A i \in 1..Len(hist) :
        ( /\ hist[i].op = "removeInclude"
          /\ wellFormedInclude(hist[i].arg)
          /\ ~\E n \in includeLines(hist[i].text) :
                 includeOfLine(lineText(hist[i].text, lineStart(hist[i].text, n))) = hist[i].arg )
        => /\ hist[i].ret = TRUE
           /\ (IF i < Len(hist) THEN hist[i + 1].text ELSE text) = hist[i].text

\* an include was removed from a document that holds another include, not that one
C9_Witness ==
    /\ hist # <<>>
    /\ hist[Len(hist)].op = "removeInclude"
    /\ hist[Len(hist)].arg = <<"\"", "b", "\"">>
    /\ includeLines(hist[Len(hist)].text) # {}
    /\ hist[Len(hist)].ret = TRUE
    /\ text = hist[Len(hist)].text

\* C10: malformed input is rejected before any mutation: insertInclude and
\* removeInclude of an argument that is neither <...> nor "...", and
\* insertForwardDeclaration of an argument that does not start with "class " or
\* "struct ", return FALSE and leave the text unchanged.
C10_MalformedRejected ==
    \A i \in 1..Len(hist) :
        ( \/ /\ hist[i].op \in {"insertInclude", "removeInclude"}
             /\ ~wellFormedInclude(hist[i].arg)
          \/ /\ hist[i].op = "insertForwardDeclaration"
             /\ ~startsWith(hist[i].arg, ClassKeyword \o <<" ">>)
             /\ ~startsWith(hist[i].arg, StructKeyword \o <<" ">>) )
        => /\ hist[i].ret = FALSE
           /\ (IF i < Len(hist) THEN hist[i + 1].text ELSE text) = hist[i].text

----------------------------------------------------------------------------
(* Symbols of a document, and CppDocument::deleteMethodLocal / deleteMethod *)

\* how many braces are open at offset pos
braceDepth(t, pos) ==
    Cardinality({i \in 1..pos : t[i] = "{"}) - Cardinality({i \in 1..pos : t[i] = "}"})

\* The symbol that starts on a line of the document, as the symbol provider reports
\* it: from the first non-blank character of the line to its end, or to the brace
\* that closes the body opened on the line; named by what precedes its '(' (a
\* function, described by its parameter list) or its ';' (a variable). A blank line,
\* a comment line and a line inside a body hold no symbol.
symbolOfLine(t, ls) ==
    LET l == lineText(t, ls)
        body == skipBlanks(l)
        first == ls + (Len(l) - Len(body))
        paren == indexOfChar(body, "(", 0)
        close == indexOfChar(body, ")", 0)
        semi == indexOfChar(body, ";", 0)
        open == indexOfChar(body, "{", 0)
        closing == IF open < 0 THEN -1 ELSE closingBrace(t, first + open + 1, 1)
    IN  [valid |-> body # Empty /\ body[1] # "/" /\ braceDepth(t, ls) = 0,
         name |-> IF paren >= 0 THEN SubSeq(body, 1, paren)
                  ELSE IF semi >= 0 THEN SubSeq(body, 1, semi) ELSE body,
         isFunction |-> paren >= 0,
         description |-> IF paren >= 0 /\ close > paren
                         THEN SubSeq(body, paren + 1, close + 1) ELSE Empty,
         start |-> first,
         end |-> IF closing >= 0 THEN closing + 1 ELSE ls + Len(l)]

\* CodeDocument::symbols(), as a set
symbols(t) == {s \in {symbolOfLine(t, ls) : ls \in lineStarts(t)} : s.valid}

\* the orders in which a list can hold the symbols S
Orderings(S) ==
    {o \in [1..Cardinality(S) -> S] : \A i, j \in 1..Cardinality(S) : o[i] = o[j] => i = j}

\* doesNotMatchMethod, negated
matchesMethod(symbol, methodName, signature) ==
    IF signature = Empty
    THEN symbol.isFunction /\ symbol.name = methodName
    ELSE symbol.isFunction /\ symbol.name = methodName /\ symbol.description = signature

\* a sort that puts the symbols start-to-end
RECURSIVE sortAscending(_)
sortAscending(l) ==
    IF l = <<>> THEN <<>>
    ELSE LET i == CHOOSE i \in 1..Len(l) : \A j \in 1..Len(l) : l[i].start <= l[j].start
         IN  <<l[i]>> \o sortAscending(SubSeq(l, 1, i - 1) \o SubSeq(l, i + 1, Len(l)))

\* std::ranges::sort(symbolList, byRange): symbols end-to-start
RECURSIVE sortByRange(_)
sortByRange(l) ==
    IF l = <<>> THEN <<>>
    ELSE LET i == CHOOSE i \in 1..Len(l) : \A j \in 1..Len(l) : l[i].start >= l[j].start
         IN  <<l[i]>> \o sortByRange(SubSeq(l, 1, i - 1) \o SubSeq(l, i + 1, Len(l)))

\* CodeDocument::deleteSymbol(symbol): the symbol's range goes; a range that no
\* longer lies in the document is cut to it
deleteSymbol(t, symbol) ==
    removeText(t, Min({symbol.start, Len(t)}), Min({symbol.end, Len(t)}))

\* for (symbol : symbolList) deleteSymbol(*symbol): the ranges are those of the
\* document before the first deletion
RECURSIVE deleteSymbols(_, _)
deleteSymbols(t, symbolList) ==
    IF symbolList = <<>> THEN t
    ELSE deleteSymbols(deleteSymbol(t, Head(symbolList)), Tail(symbolList))

\* CppDocument::deleteMethodLocal(methodName, signature) on the text t whose
\* symbols() come in the order given
deleteMethodLocal(t, order, methodName, signature) ==
    LET symbolList == SelectSeq(order, LAMBDA s : matchesMethod(s, methodName, signature))
    IN  IF symbolList = <<>> THEN t
        ELSE deleteSymbols(t, sortByRange(symbolList))

\* every function of the document, wherever the cursor is
functionsAnywhere(t, pos) == {s \in symbols(t) : s.isFunction}

\* TextRange::contains on a symbol's range, for the symbol at the cursor
functionsAt(t, pos) == {s \in symbols(t) : s.isFunction /\ rangeContains(s, pos)}

\* the most symbols a document starts with
MaxSymbols == 2

SymbolLines == {<<"f", "(", ")", "{", "}">>, <<" ", "f", "(", "i", ")", "{", "}">>, <<"g", "(", ")", ";">>, <<"f", ";">>}

RECURSIVE DocsOfSymbols(_)
DocsOfSymbols(n) ==
    IF n = 1 THEN SymbolLines
    ELSE {l \o <<Newline>> \o d : l \in SymbolLines, d \in DocsOfSymbols(n - 1)}

PeerTexts == {<<"f", "(", "i", ")", ";", Newline, "f", "(", ")", ";">>}
MethodNames == {<<"f">>, <<"g">>}
Signatures == {Empty, <<"(", "i", ")">>}

\* The document is the source /a/x.cpp; its header /a/x.h may exist, and then
\* the project may hold it as an open document.
InitDelete ==
    /\ text \in UNION {DocsOfSymbols(n) : n \in 1..MaxSymbols}
    /\ docFile = Universe[1]
    /\ disk \in {{Universe[1]}, {Universe[1], Universe[2]}}
    /\ opened \in {{Universe[1]}, {Universe[1], Universe[2]} \cap disk}
    /\ peer \in (IF Universe[2] \in opened THEN PeerTexts ELSE {Empty})
    /\ cursor \in lineStarts(text) \cup {Len(text)}
    /\ anchor = cursor
    /\ fnStart = -1 /\ settings = NoSettings /\ hist = <<>>
    /\ cache = [f \in Files |-> Empty] /\ project = <<>>
    /\ lastCall = NoCall /\ firstRet = [f \in Files |-> Empty]

\* the cursor after deleteMethodLocal: where the last deletion took place
cursorAfterDelete(t, methodName, signature) ==
    LET hit == {s \in symbols(t) : matchesMethod(s, methodName, signature)}
    IN  IF hit = {} THEN cursor ELSE Min({s.start : s \in hit})

\* deleteMethod(methodName, signature): the counterpart document first, then this
\* one. Project::get returns a null pointer for a path it holds no document for, and
\* line 1231 calls deleteMethodLocal through it: the process crashes there, or the
\* call through the null pointer does nothing and the code goes on.
deleteBoth(opName, methodName, signature) ==
    \E r \in {correspondingHeaderSource(docFile, cache, disk, project)} :
        /\ cache' = r.cache
        /\ IF r.path # Empty /\ r.path \notin opened
           THEN \/ /\ hist' = remember(hist, Call(opName, <<methodName, signature>>, "crashed"))
                   /\ UNCHANGED <<text, cursor, anchor, peer>>
                \/ /\ \E o \in Orderings(symbols(text)) :
                         text' = deleteMethodLocal(text, o, methodName, signature)
                   /\ cursor' = cursorAfterDelete(text, methodName, signature)
                   /\ anchor' = cursor'
                   /\ peer' = peer
                   /\ hist' = remember(hist, Call(opName, <<methodName, signature>>, "done"))
           ELSE /\ IF r.path # Empty
                   THEN \E o \in Orderings(symbols(peer)) :
                           peer' = deleteMethodLocal(peer, o, methodName, signature)
                   ELSE peer' = peer
                /\ \E o \in Orderings(symbols(text)) :
                      text' = deleteMethodLocal(text, o, methodName, signature)
                /\ cursor' = cursorAfterDelete(text, methodName, signature)
                /\ anchor' = cursor'
                /\ hist' = remember(hist, Call(opName, <<methodName, signature>>, "done"))

\* the process is running: no call has crashed
running == IF hist = <<>> THEN TRUE ELSE hist[Len(hist)].ret # "crashed"

DeleteMethod(methodName, signature) ==
    /\ Len(hist) < MaxOps
    /\ running
    /\ deleteBoth("deleteMethod", methodName, signature)
    /\ UNCHANGED <<docFile, fnStart, settings, disk, project, lastCall, firstRet, opened>>

\* deleteMethod(): the function at the cursor
DeleteMethodAtCursor ==
    /\ Len(hist) < MaxOps
    /\ running
    /\ IF functionsAt(text, cursor) = {}
       THEN /\ hist' = remember(hist, Call("deleteMethod()", <<>>, "invalid"))
            /\ UNCHANGED <<text, cursor, anchor, peer, cache>>
       ELSE LET symbol == CHOOSE s \in functionsAt(text, cursor) : TRUE
            IN  deleteBoth("deleteMethod()", symbol.name, symbol.description)
    /\ UNCHANGED <<docFile, fnStart, settings, disk, project, lastCall, firstRet, opened>>

NextDelete ==
    \/ \E methodName \in MethodNames, signature \in Signatures :
          DeleteMethod(methodName, signature)
    \/ DeleteMethodAtCursor

SpecDelete == InitDelete /\ [][NextDelete]_vars

----------------------------------------------------------------------------
(* Claims about method deletion, checked under SpecDelete *)

\* t without the characters at the offsets of the ranges
withoutRanges(t, ranges) ==
    LET keep == {p \in 0..(Len(t) - 1) : \A r \in ranges : p < r.start \/ p >= r.end}
        F[n \in 0..Len(t)] ==
            IF n = 0 THEN <<>>
            ELSE IF (n - 1) \in keep THEN Append(F[n - 1], t[n]) ELSE F[n - 1]
    IN  F[Len(t)]

\* C11: deleting a method with an empty signature removes the range of every function
\* symbol of that name and nothing else, whatever the order of the overloads in the
\* text and in the symbol list; the deletions run in strictly descending order of
\* start offset.
C11_DeletesExactlyTheOverloads ==
    /\ \A i \in 1..Len(hist) :
          (hist[i].op = "deleteMethod" /\ hist[i].arg[2] = Empty /\ hist[i].ret = "done")
          => (IF i < Len(hist) THEN hist[i + 1].text ELSE text)
             = withoutRanges(hist[i].text,
                   {s \in symbols(hist[i].text) : s.isFunction /\ s.name = hist[i].arg[1]})
    /\ \A o \in Orderings(symbols(text)) :
          \A i \in 1..(Len(o) - 1) : sortByRange(o)[i].start > sortByRange(o)[i + 1].start

\* two overloads, the later one first in the text or not, with text around them, are gone
C11_Witness ==
    /\ hist # <<>>
    /\ hist[Len(hist)].op = "deleteMethod"
    /\ hist[Len(hist)].arg = <<<<"f">>, Empty>>
    /\ Cardinality({s \in symbols(hist[Len(hist)].text) : s.isFunction /\ s.name = <<"f">>}) >= 2
    /\ text = <<" ", Newline>>

----------------------------------------------------------------------------
(* Class members: findClassBody, addMemberOrMethod, addSpecifierSection,       *)
(* addMember and addMethodDeclaration                                          *)

Public == "public"
Protected == "protected"
Private == "private"

\* accessSpecifierMap.value(specifier)
accessSpecifierMap(specifier) ==
    IF specifier = Public THEN <<"p", "u", "b", "l", "i", "c">>
    ELSE IF specifier = Private THEN <<"p", "r", "i", "v", "a", "t", "e">>
    ELSE <<"p", "r", "o", "t", "e", "c", "t", "e", "d">>

\* The children of a field_declaration_list the query engine reports between the
\* offsets pos and close, in the order of the text: one for each ':' (an access
\* specifier) and each ';' (a field or a declaration), from the first non-blank
\* character after the child before it through that ':' or ';'.
bodyItems(t, pos, close) ==
    the({ [i \in 1..Len(ends) |->
              [start |-> Min({p \in (IF i = 1 THEN pos ELSE ends[i - 1] + 1)..ends[i] :
                                  t[p + 1] \notin {" ", Newline}}),
               end |-> ends[i] + 1,
               access |-> t[ends[i] + 1] = ":"]] :
          ends \in {ascending({e \in pos..(close - 1) : t[e + 1] \in {":", ";"}})} })

\* CppDocument::findClassBody(className): the range of the body of the first class
\* of that name, braces included; not valid when there is no such class
findClassBody(t, className) ==
    LET at == indexOfStr(t, <<"c", "l", "a", "s", "s", " ">> \o className \o <<" ">>, 0)
        open == IF at < 0 THEN -1 ELSE indexOfChar(t, "{", at)
        close == IF open < 0 THEN -1 ELSE closingBrace(t, open + 1, 1)
    IN  IF close < 0 THEN [valid |-> FALSE, start |-> 0, end |-> 0]
        ELSE [valid |-> TRUE, start |-> open, end |-> close + 1]

\* queryInRange(range, (access_specifier "%1") @access . [...]* @field): one match
\* for each access specifier of that name in the range, in the order of the text,
\* with the fields that follow it up to the next access specifier
sectionMatches(t, range, specifier) ==
    the({ LET isAccess(i) == /\ items[i].access
                             /\ SubSeq(t, items[i].start + 1, items[i].end)
                                = accessSpecifierMap(specifier) \o <<":">>
              fieldsOf(i) == {j \in (i + 1)..Len(items) :
                                  \A k \in (i + 1)..j : ~items[k].access}
          IN  the({ [k \in 1..Len(at) |->
                        [access |-> items[at[k]],
                         field |-> [j \in 1..Cardinality(fieldsOf(at[k])) |-> items[at[k] + j]]]] :
                    at \in {ascending({i \in 1..Len(items) : isAccess(i) /\ fieldsOf(i) # {}})} }) :
          items \in {bodyItems(t, range.start + 1, range.end - 1)} })

\* TextDocument::indentationAtPosition(pos): the blanks the line of pos starts with
indentationAtPosition(t, pos) ==
    LET l == lineText(t, startOfLine(t, pos))
    IN  SubSeq(l, 1, Len(l) - Len(skipBlanks(l)))

\* a choice of the first match where the code takes the last
firstMatch(result) == result[1]

\* const auto &match = result.last()
lastMatch(result) == result[Len(result)]

\* CppDocument::addSpecifierSection(memberText, className, specifier)
addSpecifierSection(t, memberText, className, specifier) ==
    the({ IF ~range.valid THEN [text |-> t, cursor |-> cursor, ret |-> FALSE]
          ELSE the({ IF result = <<>> THEN [text |-> t, cursor |-> cursor, ret |-> FALSE]
                     ELSE LET pos == lastMatch(result)
                              indent == indentationAtPosition(t, pos.end)
                              newSpecifier == <<Newline, Newline>> \o accessSpecifierMap(specifier) \o <<":">>
                              inserted == newSpecifier \o <<Newline>> \o indent \o memberText
                          IN  [text |-> insertText(t, pos.end, inserted),
                               cursor |-> pos.end + Len(inserted), ret |-> TRUE] :
                     result \in {bodyItems(t, range.start + 1, range.end - 1)} }) :
          range \in {findClassBody(t, className)} })

Success == "Success"
ClassNotFound == "ClassNotFound"

\* CppDocument::addMemberOrMethod(memberInfo, className, specifier)
addMemberOrMethod(t, memberInfo, className, specifier) ==
    the({ IF ~range.valid THEN [text |-> t, cursor |-> cursor, ret |-> ClassNotFound]
          ELSE the({ IF result # <<>>
                     THEN LET fields == lastMatch(result).field
                              pos == fields[Len(fields)]
                              indent == indentationAtPosition(t, pos.end)
                              inserted == <<Newline>> \o indent \o memberInfo \o <<";">>
                          IN  [text |-> insertText(t, pos.end, inserted),
                               cursor |-> pos.end + Len(inserted), ret |-> Success]
                     ELSE the({ [text |-> check.text, cursor |-> check.cursor,
                                 ret |-> IF check.ret THEN Success ELSE ClassNotFound] :
                                check \in {addSpecifierSection(t, memberInfo \o <<";">>,
                                                               className, specifier)} }) :
                     result \in {sectionMatches(t, range, specifier)} }) :
          range \in {findClassBody(t, className)} })

\* the most specifier sections a class starts with
MaxSections == 2

\* a specifier section of the class: the specifier and one field
SectionKinds == {[spec |-> <<"p", "u", "b", "l", "i", "c">>, field |-> <<"i", "n", "t", " ", "x", ";">>],
                 [spec |-> <<"p", "r", "i", "v", "a", "t", "e">>, field |-> <<"i", "n", "t", " ", "z", ";">>]}

\* class Foo with the sections secs, on one line or one item a line
classText(secs, oneLine) ==
    LET sep == IF oneLine THEN <<" ">> ELSE <<Newline>>
        ind == IF oneLine THEN <<" ">> ELSE <<Newline, " ", " ">>
        F[n \in 0..Len(secs)] ==
            IF n = 0 THEN <<>>
            ELSE F[n - 1] \o sep \o secs[n].spec \o <<":">> \o ind \o secs[n].field
    IN  <<"c", "l", "a", "s", "s", " ", "F", "o", "o", " ", "{">> \o F[Len(secs)] \o sep \o <<"}", ";">>

ClassTexts ==
    {classText(secs, oneLine) :
        secs \in UNION {[1..n -> SectionKinds] : n \in 0..MaxSections}, oneLine \in BOOLEAN}

ClassNames == {<<"F", "o", "o">>, <<"B", "a", "r">>}
Specifiers == {Public, Protected, Private}

InitClass ==
    /\ text \in ClassTexts
    /\ docFile = Universe[2]
    /\ cursor = 0 /\ anchor = 0
    /\ fnStart = -1 /\ settings = NoSettings /\ hist = <<>> /\ peer = Empty /\ opened = {}
    /\ cache = [f \in Files |-> Empty] /\ disk = {} /\ project = <<>>
    /\ lastCall = NoCall /\ firstRet = [f \in Files |-> Empty]

\* an addMember that reports the class it did not find
returnsFound(result) == result # ClassNotFound

\* addMember, addMethodDeclaration: if (result == ClassNotFound) spdlog::error(...);
\* return true;
returnsTrue(result) == TRUE

\* the body addMember and addMethodDeclaration share
addToClass(opName, memberInfo, className, specifier) ==
    \E result \in {addMemberOrMethod(text, memberInfo, className, specifier)} :
        /\ text' = result.text
        /\ cursor' = result.cursor
        /\ anchor' = result.cursor
        /\ hist' = record(hist, Call(opName, <<memberInfo, className, specifier>>,
                                         returnsTrue(result.ret)))

AddMember(className, specifier) ==
    /\ Len(hist) < MaxOps
    /\ addToClass("addMember", <<"i", "n", "t", " ", "y">>, className, specifier)
    /\ UNCHANGED <<docFile, fnStart, settings, peer, opened>>
    /\ UNCHANGED resolverVars

AddMethodDeclaration(className, specifier) ==
    /\ Len(hist) < MaxOps
    /\ addToClass("addMethodDeclaration", <<"v", "o", "i", "d", " ", "m", "(", ")">>, className, specifier)
    /\ UNCHANGED <<docFile, fnStart, settings, peer, opened>>
    /\ UNCHANGED resolverVars

NextClass ==
    \/ \E className \in ClassNames, specifier \in Specifiers : AddMember(className, specifier)
    \/ \E className \in ClassNames : AddMethodDeclaration(className, Protected)

SpecClass == InitClass /\ [][NextClass]_vars

----------------------------------------------------------------------------
(* Claims about addMember and addMethodDeclaration, checked under SpecClass *)

\* the text an operation of the observation window left
textAfter(i) == IF i < Len(hist) THEN hist[i + 1].text ELSE text

\* the offsets at which k occurs in t
occurrences(t, k) == {i \in 0..(Len(t) - Len(k)) : SubSeq(t, i + 1, i + Len(k)) = k}

ScenarioClass == <<"c", "l", "a", "s", "s", " ", "F", "o", "o", " ", "{", " ", "p", "u", "b", "l", "i", "c", ":", " ", "i", "n", "t", " ", "x", ";", " ", "}", ";">>

C14_ClassNotFoundIsSuccess ==
    \A i \in 1..Len(hist) :
        ( /\ hist[i].op \in {"addMember", "addMethodDeclaration"}
          /\ occurrences(hist[i].text, <<"c", "l", "a", "s", "s", " ">> \o hist[i].arg[2] \o <<" ">>) = {} )
        => /\ hist[i].ret = TRUE
           /\ textAfter(i) = hist[i].text

\* a declaration was asked for in a class the document does not hold
C14_Witness ==
    /\ hist # <<>>
    /\ hist[Len(hist)].op = "addMethodDeclaration"
    /\ hist[Len(hist)].arg[2] = <<"B", "a", "r">>
    /\ hist[Len(hist)].text \in ClassTexts
    /\ hist[Len(hist)].ret = TRUE
    /\ text = hist[Len(hist)].text

----------------------------------------------------------------------------
(* Claims about forward declarations, checked under SpecInclude *)

ScenarioHeader == <<"#", "i", "n", "c", "l", "u", "d", "e", " ", "<", "v", "e", "c", "t", "o", "r", ">", Newline>>

\* what a qualified forward declaration is to insert
expectedDeclaration(fwddecl) ==
    IF fwddecl = <<"c", "l", "a", "s", "s", " ", "F", "o", "o", ":", ":", "B", "a", "r">> THEN <<"n", "a", "m", "e", "s", "p", "a", "c", "e", " ", "F", "o", "o", " ", "{", Newline, "c", "l", "a", "s", "s", " ", "B", "a", "r", ";", Newline, "}">>
    ELSE IF fwddecl = <<"s", "t", "r", "u", "c", "t", " ", "N", ":", ":", "M", ":", ":", "C">>
    THEN <<"n", "a", "m", "e", "s", "p", "a", "c", "e", " ", "N", " ", "{", Newline, "n", "a", "m", "e", "s", "p", "a", "c", "e", " ", "M", " ", "{", Newline, "s", "t", "r", "u", "c", "t", " ", "C", ";", Newline, "}", Newline, "}">>
    ELSE Empty

\* C13 as stated: a header holding only #include <vector> and a line break, after
\* insertForwardDeclaration("class Foo::Bar"), ends with the closing brace of the
\* namespace block.
C13_ScenarioExact ==
    \A i \in 1..Len(hist) :
        ( /\ hist[i].op = "insertForwardDeclaration"
          /\ isHeaderFile(docFile)
          /\ hist[i].text = ScenarioHeader
          /\ hist[i].arg = <<"c", "l", "a", "s", "s", " ", "F", "o", "o", ":", ":", "B", "a", "r">> )
        => textAfter(i) = <<"#", "i", "n", "c", "l", "u", "d", "e", " ", "<", "v", "e", "c", "t", "o", "r", ">", Newline, Newline, "n", "a", "m", "e", "s", "p", "a", "c", "e", " ", "F", "o", "o", " ", "{", Newline, "c", "l", "a", "s", "s", " ", "B", "a", "r", ";", Newline, "}">>

\* C13, amended: insertForwardDeclaration of a qualified name on a header that holds
\* an include and not yet the declaration returns TRUE and inserts two line breaks
\* and the declaration at the end of the line of the last #include, in namespace
\* blocks with the first qualifier outermost; the text before and after that point,
\* the line break of the include line too, stays.
C13_InsertsAfterLastInclude ==
    \A i \in 1..Len(hist) :
        LET before == hist[i].text
            expected == expectedDeclaration(hist[i].arg)
            inc == Max(occurrences(before, IncludeKeyword))
        IN  ( /\ hist[i].op = "insertForwardDeclaration"
              /\ isHeaderFile(docFile)
              /\ expected # Empty
              /\ occurrences(before, IncludeKeyword) # {}
              /\ hist[i].ret = TRUE )
            => /\ \E e \in inc..Len(before) :
                     /\ e = Len(before) \/ before[e + 1] = Newline
                     /\ \A p \in (inc + 1)..e : before[p] # Newline
                     /\ textAfter(i) = SubSeq(before, 1, e) \o <<Newline, Newline>>
                                       \o expected \o SubSeq(before, e + 1, Len(before))
               /\ (before = ScenarioHeader /\ hist[i].arg = <<"c", "l", "a", "s", "s", " ", "F", "o", "o", ":", ":", "B", "a", "r">>)
                  => textAfter(i) = <<"#", "i", "n", "c", "l", "u", "d", "e", " ", "<", "v", "e", "c", "t", "o", "r", ">", Newline, Newline, "n", "a", "m", "e", "s", "p", "a", "c", "e", " ", "F", "o", "o", " ", "{", Newline, "c", "l", "a", "s", "s", " ", "B", "a", "r", ";", Newline, "}", Newline>>

\* a declaration with two qualifiers went in after the second of two includes
C13_Witness ==
    /\ Len(hist) = 1
    /\ hist[1].op = "insertForwardDeclaration"
    /\ hist[1].arg = <<"s", "t", "r", "u", "c", "t", " ", "N", ":", ":", "M", ":", ":", "C">>
    /\ hist[1].text = <<"#", "i", "n", "c", "l", "u", "d", "e", " ", "<", "a", ">", Newline, "#", "i", "n", "c", "l", "u", "d", "e", " ", "<", "v", "e", "c", "t", "o", "r", ">", Newline>>
    /\ hist[1].ret = TRUE
    /\ text = <<"#", "i", "n", "c", "l", "u", "d", "e", " ", "<", "a", ">", Newline, "#", "i", "n", "c", "l", "u", "d", "e", " ", "<", "v", "e", "c", "t", "o", "r", ">", Newline, Newline, "n", "a", "m", "e", "s", "p", "a", "c", "e", " ", "N", " ", "{", Newline, "n", "a", "m", "e", "s", "p", "a", "c", "e", " ", "M", " ", "{", Newline, "s", "t", "r", "u", "c", "t", " ", "C", ";", Newline, "}", Newline, "}", Newline>>

\* the include of a well-formed argument is on a line of the text
includePresent(t, inc) == occurrences(t, IncludeKeyword \o <<" ">> \o inc \o <<Newline>>) # {}

\* the declaration of class B is in the text
declarationPresent(t) == occurrences(t, <<"c", "l", "a", "s", "s", " ", "B", ";">>) # {}

\* C15 as stated: insertForwardDeclaration of a declaration the text holds, like
\* insertInclude of an include the text holds, returns TRUE and leaves the text
\* unchanged.
C15_AlreadyPresentIsSuccess ==
    \A i \in 1..Len(hist) :
        ( \/ /\ hist[i].op = "insertForwardDeclaration"
             /\ isHeaderFile(docFile)
             /\ hist[i].arg = <<"c", "l", "a", "s", "s", " ", "B">>
             /\ declarationPresent(hist[i].text)
          \/ /\ hist[i].op = "insertInclude"
             /\ wellFormedInclude(hist[i].arg)
             /\ includePresent(hist[i].text, hist[i].arg) )
        => /\ hist[i].ret = TRUE
           /\ textAfter(i) = hist[i].text

\* C15, amended: both leave the text unchanged; insertInclude of an include the text
\* holds returns TRUE, insertForwardDeclaration of a declaration the text holds
\* returns FALSE.
C15_AlreadyPresentUnchanged ==
    \A i \in 1..Len(hist) :
        /\ ( /\ hist[i].op = "insertForwardDeclaration"
             /\ isHeaderFile(docFile)
             /\ hist[i].arg = <<"c", "l", "a", "s", "s", " ", "B">>
             /\ declarationPresent(hist[i].text) )
           => (hist[i].ret = FALSE /\ textAfter(i) = hist[i].text)
        /\ ( /\ hist[i].op = "insertInclude"
             /\ wellFormedInclude(hist[i].arg)
             /\ includePresent(hist[i].text, hist[i].arg) )
           => (hist[i].ret = TRUE /\ textAfter(i) = hist[i].text)

\* the declaration was there, below an include it could have gone after
C15_Witness ==
    /\ Len(hist) = 1
    /\ hist[1].op = "insertForwardDeclaration"
    /\ hist[1].arg = <<"c", "l", "a", "s", "s", " ", "B">>
    /\ isHeaderFile(docFile)
    /\ hist[1].text = <<"#", "i", "n", "c", "l", "u", "d", "e", " ", "<", "a", ">", Newline, "c", "l", "a", "s", "s", " ", "B", ";", Newline>>
    /\ hist[1].ret = FALSE
    /\ text = hist[1].text

----------------------------------------------------------------------------
(* CppDocument::insertCodeInMethod *)

StartOfMethod == "StartOfMethod"
EndOfMethod == "EndOfMethod"

\* QString::endsWith
endsWith(s, suffix) ==
    Len(suffix) <= Len(s) /\ SubSeq(s, Len(s) - Len(suffix) + 1, Len(s)) = suffix

\* code.replace("\n", "\n" + strTab)
RECURSIVE indentLines(_, _)
indentLines(code, strTab) ==
    IF code = <<>> THEN <<>>
    ELSE IF Head(code) = Newline THEN <<Newline>> \o strTab \o indentLines(Tail(code), strTab)
    ELSE <<Head(code)>> \o indentLines(Tail(code), strTab)

\* CodeDocument::findSymbol(name): the first symbol of that name, none if there is none
findSymbol(t, name) ==
    LET named == {s \in symbols(t) : s.name = name}
    IN  IF named = {} THEN [valid |-> FALSE]
        ELSE CHOOSE s \in named : \A o \in named : s.start <= o.start

\* a test that takes every function for a definition
anyFunction(t, symbol) == TRUE

\* cursor.setPosition(range().end); movePosition(Left, KeepAnchor); selectedText() == "}"
endsWithBrace(t, symbol) == symbol.end > 0 /\ characterAt(t, symbol.end - 1) = "}"

\* the code as it is inserted: indented line by line, ended by a line break at the
\* end of a method, without a trailing indent
preparedCode(code, insertAt) ==
    LET indented == indentLines(code, tab)
        ended == IF insertAt = EndOfMethod /\ ~endsWith(indented, <<Newline>> \o tab)
                 THEN indented \o <<Newline>> ELSE indented
    IN  IF endsWith(ended, tab) THEN SubSeq(ended, 1, Len(ended) - Len(tab)) ELSE ended

\* CppDocument::insertCodeInMethod(methodName, code, insertAt): the text and the
\* widget's cursor afterwards, and the value returned
insertCodeInMethod(t, methodName, code, insertAt) ==
    LET symbol == findSymbol(t, methodName)
        back == symbol.end - 1
        blockStart == repeatMoveBlock(t, back, PreviousCharacter, 1)
        inside == IF blockStart < Len(t) THEN blockStart + 1 ELSE blockStart
        at == IF insertAt = StartOfMethod THEN inside ELSE back
        lead == (IF insertAt = StartOfMethod THEN <<Newline>> ELSE <<>>) \o tab
        inserted == lead \o preparedCode(code, insertAt)
    IN  IF ~symbol.valid THEN [text |-> t, cursor |-> cursor, ret |-> FALSE]
        ELSE IF ~symbol.isFunction THEN [text |-> t, cursor |-> cursor, ret |-> FALSE]
        ELSE IF ~endsWithBrace(t, symbol) THEN [text |-> t, cursor |-> cursor, ret |-> FALSE]
        ELSE [text |-> insertText(t, at, inserted), cursor |-> at + Len(inserted), ret |-> TRUE]

\* the documents code is inserted into: a definition, a declaration and a variable
\* in several orders
MethodDocs ==
    {<<"f", "(", ")", "{", "}">>,
     <<"g", "(", ")", ";", Newline, "f", "(", ")", "{", " ", "x", ";", " ", "}">>,
     <<"f", ";", Newline, "f", "(", ")", "{", "}">>,
     <<"v", ";", Newline, " ", "g", "(", ")", "{", Newline, "}", Newline, "g", ";">>}

Codes == {<<"a", ";">>, <<"a", ";", Newline, "b", ";", Newline>>}
InsertNames == {<<"f">>, <<"g">>, <<"v">>, <<"h">>}

InitMethod ==
    /\ text \in MethodDocs
    /\ docFile = Universe[1]
    /\ cursor \in {0, Len(text)} /\ anchor = cursor
    /\ fnStart = -1 /\ settings = NoSettings /\ hist = <<>> /\ peer = Empty /\ opened = {}
    /\ cache = [f \in Files |-> Empty] /\ disk = {} /\ project = <<>>
    /\ lastCall = NoCall /\ firstRet = [f \in Files |-> Empty]

InsertCodeInMethod(methodName, code, insertAt) ==
    LET r == insertCodeInMethod(text, methodName, code, insertAt)
    IN  /\ Len(hist) < MaxOps
        /\ text' = r.text
        /\ cursor' = r.cursor
        /\ anchor' = IF r.ret THEN r.cursor ELSE anchor
        /\ hist' = record(hist, Call("insertCodeInMethod", <<methodName, code, insertAt>>, r.ret))
        /\ UNCHANGED <<docFile, fnStart, settings, peer, opened>>
        /\ UNCHANGED resolverVars

NextMethod ==
    \E methodName \in InsertNames, code \in Codes, insertAt \in {StartOfMethod, EndOfMethod} :
        InsertCodeInMethod(methodName, code, insertAt)

SpecMethod == InitMethod /\ [][NextMethod]_vars

----------------------------------------------------------------------------
(* Claims about insertCodeInMethod, checked under SpecMethod *)

\* C16: insertCodeInMethod returns FALSE and leaves the text and the cursor as they
\* were when no symbol has the name, when the symbol is no function, and when the
\* character before the symbol's end is not '}'; it returns TRUE, and has changed
\* the text, only when none of the three is the case.
C16_FailuresLeaveTextAlone ==
    \A i \in 1..Len(hist) :
        LET before == hist[i].text
            named == {s \in symbols(before) : s.name = hist[i].arg[1]}
            first == CHOOSE s \in named : \A o \in named : s.start <= o.start
            failure == \/ named = {}
                       \/ ~first.isFunction
                       \/ before[first.end] # "}"
        IN  hist[i].op = "insertCodeInMethod"
            => /\ failure => /\ hist[i].ret = FALSE
                             /\ textAfter(i) = before
                             /\ (i = Len(hist) => cursor = hist[i].cursor /\ anchor = hist[i].anchor)
               /\ ~failure => (hist[i].ret = TRUE /\ textAfter(i) # before)

\* a declaration and then a name no symbol has were asked for, and the text is the same
C16_Witness ==
    /\ Len(hist) = 2
    /\ hist[1].op = "insertCodeInMethod" /\ hist[1].arg[1] = <<"g">>
    /\ hist[1].text = <<"g", "(", ")", ";", Newline, "f", "(", ")", "{", " ", "x", ";", " ", "}">>
    /\ hist[1].ret = FALSE
    /\ hist[2].op = "insertCodeInMethod" /\ hist[2].arg[1] = <<"h">>
    /\ hist[2].ret = FALSE
    /\ text = hist[1].text

----------------------------------------------------------------------------
(* CppDocument::commentSelection *)

\* QString::trimmed().isEmpty() of a piece of a line
isBlank(s) == \A i \in 1..Len(s) : s[i] = " "

\* The do-while loop of commentSelection with the cursor at the line start pos:
\* "//" goes in, the cursor moves Up and to StartOfLine, and the loop goes on while
\* the cursor is not before selectionStartPos. Up does not move on the first line of
\* the document: then the cursor is back where it was, the condition holds again,
\* and the loop never ends (loops).
RECURSIVE commentLines(_, _, _, _)
commentLines(t, pos, selectionStartPos, selectionOffset) ==
    LET t1 == insertText(t, pos, <<"/", "/">>)
        up == startOfLine(t1, moveUp(t1, pos + 2))
    IN  IF up >= selectionStartPos
        THEN IF up = pos
             THEN [text |-> t1, selectionOffset |-> selectionOffset + 2, loops |-> TRUE]
             ELSE commentLines(t1, up, selectionStartPos, selectionOffset + 2)
        ELSE [text |-> t1, selectionOffset |-> selectionOffset + 2, loops |-> FALSE]

\* CppDocument::commentSelection() with the widget's cursor at position pos with
\* anchor anc: the text and the cursor afterwards; ret is "loops" when the call
\* does not return
commentSelection(t, pos, anc) ==
    LET cursorPos == pos
        selectionStart == Min({pos, anc})
        selectionEndPos == Max({pos, anc})
        str1 == SubSeq(t, startOfLine(t, selectionStart) + 1, selectionStart)
        str2 == SubSeq(t, startOfLine(t, selectionEndPos) + 1, selectionEndPos)
        \* the "//" branch
        selectionStartPos == startOfLine(t, selectionStart)
        from == startOfLine(t, IF str2 = Empty /\ selectionEndPos > 0
                               THEN selectionEndPos - 1 ELSE selectionEndPos)
        lines == commentLines(t, from, selectionStartPos, 0)
        \* the block comment branch
        t1 == insertText(t, selectionEndPos, <<"*", "/">>)
        t2 == insertText(t1, selectionStart, <<"/", "*">>)
        selected(newText, first, selectionOffset) ==
            IF cursorPos = selectionEndPos
            THEN [text |-> newText, anchor |-> first,
                  cursor |-> selectionEndPos + selectionOffset, ret |-> "done"]
            ELSE [text |-> newText, anchor |-> selectionEndPos + selectionOffset,
                  cursor |-> first, ret |-> "done"]
        \* no selection
        line == lineText(t, startOfLine(t, pos))
    IN  IF pos # anc
        THEN IF isBlank(str1) /\ isBlank(str2)
             THEN IF lines.loops
                  THEN [text |-> lines.text, anchor |-> anc, cursor |-> pos, ret |-> "loops"]
                  ELSE selected(lines.text, selectionStartPos, lines.selectionOffset)
             ELSE selected(t2, selectionStart, 4)
        ELSE IF line # Empty
             THEN [text |-> insertText(t, startOfLine(t, pos), <<"/", "/">>),
                   anchor |-> cursorPos + 2, cursor |-> cursorPos + 2, ret |-> "done"]
             ELSE [text |-> t, anchor |-> cursorPos, cursor |-> cursorPos, ret |-> "done"]

\* the documents commentSelection is applied to
CommentDocs ==
    {<<"a", "b">>,
     <<Newline, "a", "b", Newline>>,
     <<"a", "b", Newline, " ", " ", "c", "d", Newline, "e", "f">>,
     <<" ", " ", "a", "b", Newline, Newline, " ", " ", "c", "d">>}

InitComment ==
    /\ text \in CommentDocs
    /\ cursor \in 0..Len(text)
    /\ anchor \in 0..Len(text)
    /\ docFile = Universe[1]
    /\ fnStart = -1 /\ settings = NoSettings /\ hist = <<>> /\ peer = Empty /\ opened = {}
    /\ cache = [f \in Files |-> Empty] /\ disk = {} /\ project = <<>>
    /\ lastCall = NoCall /\ firstRet = [f \in Files |-> Empty]

\* a call that does not return leaves nothing to follow it
CommentSelection ==
    LET r == commentSelection(text, cursor, anchor)
    IN  /\ Len(hist) < MaxOps
        /\ (IF hist = <<>> THEN TRUE ELSE hist[Len(hist)].ret # "loops")
        /\ text' = r.text
        /\ cursor' = r.cursor
        /\ anchor' = r.anchor
        /\ hist' = record(hist, Call("commentSelection", <<>>, r.ret))
        /\ UNCHANGED <<docFile, fnStart, settings, peer, opened>>
        /\ UNCHANGED resolverVars

NextComment == CommentSelection

SpecComment == InitComment /\ [][NextComment]_vars

----------------------------------------------------------------------------
(* Claims about commentSelection, checked under SpecComment *)

\* t with s inserted at each of the offsets
RECURSIVE insertAtAll(_, _, _)
insertAtAll(t, offsets, s) ==
    IF offsets = {} THEN t
    ELSE insertAtAll(insertText(t, Max(offsets), s), offsets \ {Max(offsets)}, s)

\* C17: with a selection, commentSelection looks at the text before the start of the
\* selection and at the text after its end, on their lines: when both are blank,
\* every line the selection covers wholly gets "//" at its start; otherwise "/*"
\* goes in at the start of the selection and "*/" at its end; afterwards the
\* selection is the original one, longer by what was inserted.
C17_CommentModeByContext ==
    \A i \in 1..Len(hist) :
        LET before == hist[i].text
            first == Min({hist[i].cursor, hist[i].anchor})
            last == Max({hist[i].cursor, hist[i].anchor})
            preceding == SubSeq(before, startOfLine(before, first) + 1, first)
            following == SubSeq(before, last + 1, endOfLine(before, last))
            covered == {ls \in lineStarts(before) : ls >= first /\ endOfLine(before, ls) <= last}
            expected == IF isBlank(preceding) /\ isBlank(following)
                        THEN insertAtAll(before, covered, <<"/", "/">>)
                        ELSE insertText(insertText(before, last, <<"*", "/">>), first, <<"/", "*">>)
        IN  (hist[i].op = "commentSelection" /\ hist[i].cursor # hist[i].anchor)
            => /\ hist[i].ret = "done"
               /\ textAfter(i) = expected
               /\ i = Len(hist) =>
                     /\ Min({cursor, anchor}) = first
                     /\ Max({cursor, anchor}) = last + (Len(expected) - Len(before))


----------------------------------------------------------------------------
(* toggleSection and deleteMethod() away from any function *)

\* A session on one document: a document of FunctionTexts, whose function starts
\* at fnStart and which toggleSection is called on, or a document of symbol lines
\* (fnStart = -1), which the deleteMethod overloads are called on.
InitInvalid == InitToggle \/ InitDelete

NextInvalid ==
    \/ fnStart >= 0 /\ NextToggle
    \/ fnStart < 0 /\ NextDelete

SpecInvalid == InitInvalid /\ [][NextInvalid]_vars

\* the operation of the step that has just been recorded
lastOp(h) == IF h = <<>> THEN "" ELSE h[Len(h)].op

\* no function of the document holds the cursor
outsideFunctions ==
    IF fnStart >= 0
    THEN LET sym == functionSymbol(text, fnStart)
         IN  ~(sym.valid /\ rangeContains(sym, cursor))
    ELSE \A s \in symbols(text) : s.isFunction => ~rangeContains(s, cursor)

\* C18: a call of toggleSection without a selection, or of deleteMethod(), made
\* while the cursor is not inside any function, changes neither the text of the
\* document nor the text of its counterpart document.
C18_InvalidStateMutatesNothing ==
    [][ ( /\ hist' # hist
          /\ \/ lastOp(hist') = "toggleSection" /\ anchor = cursor
             \/ lastOp(hist') = "deleteMethod()"
          /\ outsideFunctions )
        => (text' = text /\ peer' = peer) ]_vars

\* deleteMethod() has been called on a source with a header, the cursor on a
\* line after the only function
C18_Witness ==
    /\ lastOp(hist) = "deleteMethod()"
    /\ hist[Len(hist)].ret = "invalid"
    /\ hist[Len(hist)].text = <<"f", "(", ")", "{", "}", Newline, "f", ";">>
    /\ hist[Len(hist)].cursor = 6
    /\ text = hist[Len(hist)].text
    /\ peer # Empty


----------------------------------------------------------------------------
(* Claims about moveBlock, checked under SpecBlock *)

\* the innermost of the blocks a cursor at offset pos is inside
Innermost(t, pos) ==
    CHOOSE b \in Enclosing(t, pos) : \A c \in Enclosing(t, pos) : c[1] <= b[1]

\* the direction a navigation operation travels in
directionOf(op) == IF op = "gotoBlockEnd" THEN NextCharacter ELSE PreviousCharacter

\* C19: on balanced text, from every position inside a block, one step of
\* gotoBlockEnd returns the offset just past the closing delimiter of the innermost
\* block the position is in, and one step of gotoBlockStart returns the offset of
\* its opening delimiter, wherever the two delimiters sit.
C19_FindsInnermostBoundary ==
    \A i \in 1..Len(hist) :
        ( /\ hist[i].arg = 1
          /\ Balanced(hist[i].text)
          /\ Enclosing(hist[i].text, hist[i].cursor) # {} )
        => LET b == Innermost(hist[i].text, hist[i].cursor)
           IN  hist[i].ret = IF hist[i].op = "gotoBlockEnd" THEN b[2] + 1 ELSE b[1]

\* the block of t that has a delimiter at offset pos
blockAt(t, pos) == CHOOSE b \in Blocks(t) : b[1] = pos \/ b[2] = pos

\* C20: on balanced text, when the character moveBlock inspects first, the one at
\* startPos + 1 forward and at startPos - 1 backward, opens a block for the
\* direction of travel, one step returns the boundary of that same block: the offset
\* just past its closing delimiter forward, the offset of its opening delimiter
\* backward.
C20_EntersAdjacentBlock ==
    \A i \in 1..Len(hist) :
        LET t == hist[i].text
            direction == directionOf(hist[i].op)
            adjacent == hist[i].cursor + (IF direction = NextCharacter THEN 1 ELSE -1)
        IN  ( /\ hist[i].arg = 1
              /\ Balanced(t)
              /\ adjacent \in 0..(Len(t) - 1)
              /\ characterAt(t, adjacent) \in incCounterChar(direction) )
            => LET b == blockAt(t, adjacent)
               IN  hist[i].ret = IF direction = NextCharacter THEN b[2] + 1 ELSE b[1]


----------------------------------------------------------------------------
(* Claims about the project-wide probe, checked under Spec *)

\* the positions of the project listing whose path ends, whatever the case, with
\* one of the candidate file names of f
candidatePositions(f) ==
    LET candidates == candidateFileNames(completeBaseName(f), matchingSuffixes(isHeaderFile(f)))
    IN  {i \in 1..Len(project) :
            \E k \in 1..Len(candidates) : endsWithCI(project[i], candidates[k])}

\* the candidate path sharing the longest prefix with f, the first listed of them
\* when several do; Empty when no candidate shares a character with f
longestCommonPath(f) ==
    LET score(i) == commonFilePathLength(project[i], f)
        top == {i \in candidatePositions(f) :
                   score(i) > 0 /\ \A j \in candidatePositions(f) : score(j) <= score(i)}
    IN  IF top = {} THEN Empty ELSE project[Min(top)]

\* C21: a call that reaches the project-wide probe returns the project file that
\* ends with a candidate name and shares the longest case-insensitive prefix with
\* the file's path, the first listed winning ties; when there is none it returns
\* the empty path and leaves the cache as it was.
C21_ProjectProbePicksLongestPrefix ==
    [][ (lastCall' # lastCall /\ lastCall'.scanned)
        => /\ lastCall'.path = longestCommonPath(lastCall'.file)
           /\ lastCall'.path = Empty => cache' = cache ]_vars

\* /b/x.cpp has been resolved project-wide while /a/x.h and /c/x.h, which share
\* one character with it, were both listed, /c/x.h first, and /c/x.h was returned
C21_Witness ==
    /\ lastCall.scanned
    /\ lastCall.file = <<"/", "b", "/", "x", ".", "c", "p", "p">>
    /\ Len(project) >= 2
    /\ Cardinality(candidatePositions(lastCall.file)) = 2
    /\ lastCall.path = <<"/", "c", "/", "x", ".", "h">>
    /\ lastCall.path = project[Min(candidatePositions(lastCall.file))]


----------------------------------------------------------------------------
(* Claims about the cursor after toggleSection, checked under SpecToggle *)

\* C22: after toggleSection without a selection, with the cursor anywhere in the
\* function's range, the cursor is at the same logical position as before: the
\* character that follows it is the one that followed it before the call.
C22_CursorKeepsLogicalPosition ==
    ( /\ hist # <<>>
      /\ hist[Len(hist)].op = "toggleSection"
      /\ hist[Len(hist)].ret \in {"inserted", "removed"}
      /\ hist[Len(hist)].anchor = hist[Len(hist)].cursor )
    => characterAt(text, cursor) = characterAt(hist[Len(hist)].text, hist[Len(hist)].cursor)


----------------------------------------------------------------------------
(* StructuralMutator: CppDocument::addMethodDefinition *)

\* QString::remove(const QString &str): every occurrence of str is removed
RECURSIVE removeAll(_, _)
removeAll(s, str) ==
    the({ IF at < 0 THEN s
          ELSE SubSeq(s, 1, at) \o removeAll(SubSeq(s, at + Len(str) + 1, Len(s)), str) :
          at \in {indexOfStr(s, str, 0)} })

\* QString::simplified(): no blank at either end, one blank for each run of blanks
simplified(s) ==
    LET blank(i) == s[i] \in {" ", Newline}
        kept == {i \in 1..Len(s) :
                    \/ ~blank(i)
                    \/ /\ i > 1 /\ ~blank(i - 1)
                       /\ \E j \in (i + 1)..Len(s) : ~blank(j)}
    IN  the({ [k \in 1..Len(idx) |-> IF blank(idx[k]) THEN " " ELSE s[idx[k]]] :
              idx \in {ascending(kept)} })

\* QString::lastIndexOf(QChar c, from): offset of the last c at or before from,
\* from counted from the end when it is negative; -1 if none
lastIndexOfCharFrom(s, c, from) ==
    LET upto == IF from < 0 THEN from + Len(s) ELSE from
        hits == {i \in 1..Len(s) : i - 1 <= upto /\ s[i] = c}
    IN  IF hits = {} THEN -1 ELSE Max(hits) - 1

\* QString::mid(position, n): n characters from offset position, all of the rest
\* when n is negative or exceeds it
midN(s, position, n) ==
    IF position >= Len(s) THEN Empty
    ELSE IF n < 0 \/ position + n > Len(s) THEN SubSeq(s, position + 1, Len(s))
    ELSE SubSeq(s, position + 1, position + n)

\* QStringList modifiers
modifiers ==
    << <<"o", "v", "e", "r", "r", "i", "d", "e">>, <<"f", "i", "n", "a", "l">>,
       <<"v", "i", "r", "t", "u", "a", "l">>, <<"s", "t", "a", "t", "i", "c">>,
       <<"Q", "_", "I", "N", "V", "O", "K", "A", "B", "L", "E">>,
       <<"Q", "_", "S", "L", "O", "T">>, <<"Q", "_", "S", "I", "G", "N", "A", "L">> >>

\* for (const auto &modifier : modifiers) definition.remove(modifier);
\* after the first n modifiers
RECURSIVE removeModifiers(_, _)
removeModifiers(definition, n) ==
    IF n = 0 THEN definition
    ELSE the({ removeAll(d, modifiers[n]) : d \in {removeModifiers(definition, n - 1)} })

\* the method definition addMethodDefinition constructs
methodDefinition(declaration, className, body) ==
    the({ LET openParenIdx == indexOfChar(definition, "(", 0)
              spaceIdx == lastIndexOfCharFrom(definition, " ", openParenIdx)
              returnType == left(definition, spaceIdx)
              methodName == midN(definition, spaceIdx + 1, openParenIdx - spaceIdx - 1)
              fullBody == IF body = Empty THEN <<" ", "{", "}">>
                          ELSE <<" ", "{", Newline>> \o body \o <<Newline, "}">>
          IN  returnType \o <<" ">> \o className \o <<":", ":">> \o methodName
              \o mid(definition, openParenIdx) \o fullBody :
          definition \in {simplified(removeModifiers(declaration, Len(modifiers)))} })

\* the offset of the last '{' of the text
lastOpeningBrace(t) == lastIndexOfChar(t, "{")

\* CppDocument::addMethodDefinition(declaration, className, body): the text and the
\* cursor afterwards; it returns true
addMethodDefinition(t, declaration, className, body) ==
    the({ [text |-> t2, cursor |-> lastOpeningBrace(t2) + 1, ret |-> TRUE] :
          t2 \in {insertText(t, endOfLine(t, lastIndexOfChar(t, "}") + 1),
                             <<Newline, Newline>> \o methodDefinition(declaration, className, body))} })

\* the documents addMethodDefinition is exercised on: empty, without a brace, ending
\* with a closing brace, and with text after the last closing brace
DefinitionDocs ==
    {Empty, <<"v", ";", Newline, "w", ";">>, <<"f", "(", ")", "{", "}">>, <<"f", "(", ")", "{", "}", " ", "/", "/", Newline, "b", ";">>}

Declarations ==
    {<<"v", "o", "i", "d", " ", "f", "(", ")">>, <<"v", "i", "r", "t", "u", "a", "l", " ", "i", "n", "t", " ", "g", "(", "i", "n", "t", " ", "a", ")", " ", "o", "v", "e", "r", "r", "i", "d", "e">>, <<"v", "o", "i", "d", " ", "f", "i", "n", "a", "l", "i", "z", "e", "(", ")">>}

Bodies == {Empty, <<"a", ";">>, <<"i", "f", "(", "a", ")", "{", "b", ";", "}">>}

TheClass == <<"C">>

InitDefinition ==
    /\ text \in DefinitionDocs
    /\ docFile = Universe[1]
    /\ cursor = 0 /\ anchor = 0
    /\ fnStart = -1 /\ settings = NoSettings /\ hist = <<>> /\ peer = Empty /\ opened = {}
    /\ cache = [f \in Files |-> Empty] /\ disk = {} /\ project = <<>>
    /\ lastCall = NoCall /\ firstRet = [f \in Files |-> Empty]

AddMethodDefinition(declaration, className, body) ==
    /\ Len(hist) < MaxOps
    /\ \E r \in {addMethodDefinition(text, declaration, className, body)} :
          /\ text' = r.text
          /\ cursor' = r.cursor
          /\ anchor' = r.cursor
          /\ hist' = record(hist, Call("addMethodDefinition",
                                       <<declaration, className, body>>, r.ret))
    /\ UNCHANGED <<docFile, fnStart, settings, peer, opened>>
    /\ UNCHANGED resolverVars

NextDefinition ==
    \E declaration \in Declarations, body \in Bodies :
        AddMethodDefinition(declaration, TheClass, body)

SpecDefinition == InitDefinition /\ [][NextDefinition]_vars

----------------------------------------------------------------------------
(* Claims about addMethodDefinition, checked under SpecDefinition *)

\* the words of s: its runs of characters other than blanks, in order
wordsOf(s) ==
    LET starts == {i \in 1..Len(s) : s[i] # " " /\ (i = 1 \/ s[i - 1] = " ")}
        endOf(i) == Min({j \in i..Len(s) : j = Len(s) \/ s[j + 1] = " "})
    IN  the({ [k \in 1..Len(idx) |-> SubSeq(s, idx[k], endOf(idx[k]))] :
              idx \in {ascending(starts)} })

isModifier(w) == \E k \in 1..Len(modifiers) : modifiers[k] = w

\* The definition the declaration stands for: the words in front of the parameter
\* list that are no modifiers, the last of them qualified by the class name, then
\* the parameter list as it is written, then the body in braces.
expectedDefinition(declaration, className, body) ==
    LET open == indexOfChar(declaration, "(", 0)
        close == lastIndexOfChar(declaration, ")")
        head == SelectSeq(wordsOf(SubSeq(declaration, 1, open)), LAMBDA w : ~isModifier(w))
        joined[n \in 0..Len(head)] ==
            IF n = 0 THEN Empty
            ELSE IF n = Len(head) THEN joined[n - 1] \o className \o <<":", ":">> \o head[n]
            ELSE joined[n - 1] \o head[n] \o <<" ">>
    IN  joined[Len(head)] \o SubSeq(declaration, open + 1, close + 1)
        \o (IF body = Empty THEN <<" ", "{", "}">>
            ELSE <<" ", "{", Newline>> \o body \o <<Newline, "}">>)

\* C23: the definition addMethodDefinition inserts has the return type, the method
\* name and the parameter list of the declaration, character for character, the
\* name qualified by the class, the declaration-only modifiers left out, followed
\* by " {}" or by the body in braces.
C23_DefinitionKeepsDeclaration ==
    \A i \in 1..Len(hist) :
        hist[i].op = "addMethodDefinition"
        => LET e == expectedDefinition(hist[i].arg[1], hist[i].arg[2], hist[i].arg[3])
               after == textAfter(i)
               at == endOfLine(hist[i].text, lastIndexOfChar(hist[i].text, "}") + 1)
           IN  /\ at + 2 + Len(e) <= Len(after)
               /\ SubSeq(after, at + 1, at + 2 + Len(e)) = <<Newline, Newline>> \o e

\* C24: addMethodDefinition puts the definition after the last closing brace of the
\* buffer and leaves the cursor right after the opening brace of the body of the
\* definition it has inserted.
C24_CursorInsideNewBody ==
    \A i \in 1..Len(hist) :
        (hist[i].op = "addMethodDefinition" /\ i = Len(hist))
        => LET inserted == Len(text) - Len(hist[i].text)
               at == endOfLine(hist[i].text, lastIndexOfChar(hist[i].text, "}") + 1)
               bodyLen == IF hist[i].arg[3] = Empty THEN 1 ELSE Len(hist[i].arg[3]) + 3
           IN  /\ text = insertText(hist[i].text, at, SubSeq(text, at + 1, at + inserted))
               /\ at >= lastIndexOfChar(hist[i].text, "}") + 1
               /\ cursor = at + inserted - bodyLen
               /\ characterAt(text, cursor - 1) = "{"


----------------------------------------------------------------------------
(* Claims about deleteMethod and the counterpart document, checked under SpecDelete *)

\* the function symbols of t that deleteMethod(methodName, signature) is to delete
matching(t, methodName, signature) ==
    {s \in symbols(t) : /\ s.isFunction
                        /\ s.name = methodName
                        /\ signature = Empty \/ s.description = signature}

\* the path correspondingHeaderSource gives for the document
counterpartPath == correspondingHeaderSource(docFile, cache, disk, project).path

\* a step that is a call of deleteMethod(methodName, signature)
isDeleteMethodStep == hist' # hist /\ lastOp(hist') = "deleteMethod"

\* C26: deleteMethod(name, signature) deletes the matching symbols in the
\* counterpart document and in the local one; when no counterpart is resolved only
\* the local document changes; with a signature only the symbols of exactly that
\* description go, with an empty signature every overload does.
C26_DeletesInBothDocuments ==
    [][ isDeleteMethodStep
        => LET methodName == hist'[Len(hist')].arg[1]
               signature == hist'[Len(hist')].arg[2]
           IN  /\ text' = withoutRanges(text, matching(text, methodName, signature))
               /\ peer' = IF counterpartPath # Empty
                          THEN withoutRanges(peer, matching(peer, methodName, signature))
                          ELSE peer ]_vars

\* C30: when correspondingHeaderSource gives a path the project holds no open
\* document for, deleteMethod(name, signature) touches no counterpart and still
\* deletes the matching symbols of the local document.
C30_MissingCounterpartIsSkipped ==
    [][ (isDeleteMethodStep /\ counterpartPath # Empty /\ counterpartPath \notin opened)
        => LET methodName == hist'[Len(hist')].arg[1]
               signature == hist'[Len(hist')].arg[2]
           IN  /\ peer' = peer
               /\ text' = withoutRanges(text, matching(text, methodName, signature)) ]_vars

\* C26 for the calls that find the counterpart document open or resolve none
DeletesInBothWhenOpen ==
    [][ (isDeleteMethodStep /\ (counterpartPath = Empty \/ counterpartPath \in opened))
        => LET methodName == hist'[Len(hist')].arg[1]
               signature == hist'[Len(hist')].arg[2]
           IN  /\ text' = withoutRanges(text, matching(text, methodName, signature))
               /\ peer' = IF counterpartPath # Empty
                          THEN withoutRanges(peer, matching(peer, methodName, signature))
                          ELSE peer ]_vars


----------------------------------------------------------------------------
(* StructuralMutator: CppDocument::addMethod *)

\* an addMethod that keeps the roles it started with
neverSwaps(f) == FALSE

\* if (!isHeader()) std::swap(header, source);
swapsRoles(f) == ~isHeaderFile(f)

\* the header and the source addMethod is exercised on
HeaderTexts == {<<"c", "l", "a", "s", "s", " ", "F", "o", "o", " ", "{", Newline, "p", "u", "b", "l", "i", "c", ":", Newline, " ", " ", "i", "n", "t", " ", "x", ";", Newline, "}", ";">>, <<"c", "l", "a", "s", "s", " ", "F", "o", "o", " ", "{", " ", "p", "r", "i", "v", "a", "t", "e", ":", " ", "i", "n", "t", " ", "z", ";", " ", "}", ";">>}
SourceTexts == {Empty, <<"f", "(", ")", "{", "}">>}

MethodDeclaration == <<"v", "o", "i", "d", " ", "m", "(", ")">>

\* The document is the header /a/x.h or the source /a/x.cpp; the other file of the
\* pair may exist, and peer is then its text.
InitAddMethod ==
    /\ docFile \in {Universe[1], Universe[2]}
    /\ disk \in {{docFile}, {Universe[1], Universe[2]}}
    /\ \E h \in HeaderTexts, s \in SourceTexts :
          /\ text = IF isHeaderFile(docFile) THEN h ELSE s
          /\ peer = IF disk = {docFile} THEN Empty
                    ELSE IF isHeaderFile(docFile) THEN s ELSE h
    /\ opened = {docFile}
    /\ cursor = 0 /\ anchor = 0
    /\ fnStart = -1 /\ settings = NoSettings /\ hist = <<>>
    /\ cache = [f \in Files |-> Empty] /\ project = <<>>
    /\ lastCall = NoCall /\ firstRet = [f \in Files |-> Empty]

\* CppDocument::addMethod(declaration, className, specifier, body). openHeaderSource
\* opens the corresponding file when there is one; the declaration goes to the
\* header and the definition to the source, each if it was found.
AddMethod(declaration, className, specifier, body) ==
    /\ Len(hist) < MaxOps
    /\ \E r \in {correspondingHeaderSource(docFile, cache, disk, project)} :
       \E decl \in {addMemberOrMethod(IF swapsRoles(docFile) THEN peer ELSE text,
                                      declaration, className, specifier)} :
       \E def \in {addMethodDefinition(IF swapsRoles(docFile) THEN text ELSE peer,
                                       declaration, className, body)} :
          /\ cache' = r.cache
          /\ opened' = IF r.path # Empty THEN opened \cup {r.path} ELSE opened
          /\ IF swapsRoles(docFile)
             THEN /\ text' = def.text
                  /\ cursor' = def.cursor
                  /\ peer' = IF r.path # Empty THEN decl.text ELSE peer
             ELSE /\ text' = decl.text
                  /\ cursor' = decl.cursor
                  /\ peer' = IF r.path # Empty THEN def.text ELSE peer
          /\ anchor' = cursor'
          /\ hist' = record(hist, Call("addMethod", <<declaration, className, specifier, body>>,
                                       IF r.path # Empty THEN returnsTrue(decl.ret) /\ def.ret
                                       ELSE IF swapsRoles(docFile) THEN def.ret
                                       ELSE returnsTrue(decl.ret)))
    /\ UNCHANGED <<docFile, fnStart, settings, disk, project, lastCall, firstRet>>

NextAddMethod ==
    \E className \in ClassNames, specifier \in {Public, Protected}, body \in {Empty, <<"a", ";">>} :
        AddMethod(MethodDeclaration, className, specifier, body)

SpecAddMethod == InitAddMethod /\ [][NextAddMethod]_vars

----------------------------------------------------------------------------
(* Claims about addMethod, checked under SpecAddMethod *)

\* how often the declaration and the definition of the method occur in a text
declarations(t) == Cardinality(occurrences(t, MethodDeclaration \o <<";">>))
definitions(t, className) ==
    Cardinality(occurrences(t, <<"v", "o", "i", "d", " ">> \o className \o <<":", ":", "m", "(", ")", " ", "{">>))

\* C25: addMethod, called on the header or on the source, applies
\* addMethodDeclaration to the header and addMethodDefinition to the source, never
\* the other way round; when the other file of the pair is not found it still does
\* what concerns the file it is called on and leaves the rest alone; it returns
\* true exactly when the operations it has applied have.
C25_DeclaresInHeaderDefinesInSource ==
    [][ (hist' # hist /\ lastOp(hist') = "addMethod")
        => LET arg == hist'[Len(hist')].arg
               onHeader == docFile = Universe[2]
               found == counterpartPath # Empty
               header == IF onHeader THEN text ELSE peer
               source == IF onHeader THEN peer ELSE text
               headerAfter == IF onHeader THEN text' ELSE peer'
               sourceAfter == IF onHeader THEN peer' ELSE text'
               declared == addMemberOrMethod(header, arg[1], arg[2], arg[3])
               defined == addMethodDefinition(source, arg[1], arg[2], arg[4])
           IN  /\ (onHeader \/ found) => headerAfter = declared.text
               /\ (~onHeader \/ found) => sourceAfter = defined.text
               /\ ~found => peer' = peer
               /\ hist'[Len(hist')].ret
                    = (/\ (onHeader \/ found) => returnsTrue(declared.ret)
                       /\ (~onHeader \/ found) => defined.ret) ]_vars

\* addMethod has been called on the source and has put the declaration in the header
C25_Witness ==
    /\ lastOp(hist) = "addMethod"
    /\ docFile = Universe[1]
    /\ declarations(peer) = 1
    /\ definitions(text, <<"F", "o", "o">>) = 1
    /\ definitions(peer, <<"F", "o", "o">>) = 0

\* ---------------------------------------------------------------------------
\* A new access-specifier section

\* the text of a new section for the call hist[i]: a blank line, `specifier:`, and
\* the member on a line of its own
newSection(i, indent) ==
    <<Newline, Newline>> \o accessSpecifierMap(hist[i].arg[3]) \o <<":">>
    \o <<Newline>> \o indent \o hist[i].arg[1] \o <<";">>

\* the call hist[i] is for the class Foo, which the text holds, and the class has no
\* section for the requested access specifier
lacksSection(i) ==
    /\ hist[i].op \in {"addMember", "addMethodDeclaration"}
    /\ hist[i].arg[2] = <<"F", "o", "o">>
    /\ findClassBody(hist[i].text, hist[i].arg[2]).valid
    /\ occurrences(hist[i].text, accessSpecifierMap(hist[i].arg[3]) \o <<":">>) = {}

\* the text after the call hist[i] is the text before it with a new section put
\* inside the class body, after its last element
sectionAdded(i) ==
    LET before == hist[i].text
        range == findClassBody(before, hist[i].arg[2])
    IN  \E e \in (range.start + 1)..(range.end - 1) :
            /\ \A p \in (e + 1)..(range.end - 1) : before[p] \notin {";", ":"}
            /\ textAfter(i) = SubSeq(before, 1, e) \o newSection(i, indentationAtPosition(before, e))
                              \o SubSeq(before, e + 1, Len(before))

\* C27: for every class that is located and has no section for the requested access
\* specifier, addMember and addMethodDeclaration put a new section (a blank line,
\* `specifier:`, the member on its own line) after the last element of the class
\* body, so that the member is in the buffer afterwards.
C27_CreatesMissingSection ==
    \A i \in 1..Len(hist) :
        lacksSection(i)
        => /\ sectionAdded(i)
           /\ occurrences(textAfter(i), hist[i].arg[1] \o <<";">>) # {}

\* the same for a class whose body holds at least one element
C27_CreatesSectionAfterLastElement ==
    \A i \in 1..Len(hist) :
        ( /\ lacksSection(i)
          /\ \E p \in 1..Len(hist[i].text) : hist[i].text[p] = ";" /\ p < Len(hist[i].text) )
        => /\ sectionAdded(i)
           /\ occurrences(textAfter(i), hist[i].arg[1] \o <<";">>) # {}

\* ---------------------------------------------------------------------------
\* commentSelection in line-comment mode

\* the call hist[i] of commentSelection has a selection and takes the "//" branch:
\* nothing but blanks before the start and before the end of the selection
lineMode(i) ==
    LET before == hist[i].text
        first == Min({hist[i].cursor, hist[i].anchor})
        last == Max({hist[i].cursor, hist[i].anchor})
    IN  /\ hist[i].op = "commentSelection"
        /\ first # last
        /\ isBlank(SubSeq(before, startOfLine(before, first) + 1, first))
        /\ isBlank(SubSeq(before, startOfLine(before, last) + 1, last))

\* the starts of the lines the selection of the call hist[i] covers: from the line
\* of its start to the line of its end, or to the line before when the selection
\* ends at the start of a line
coveredLines(i) ==
    LET before == hist[i].text
        first == Min({hist[i].cursor, hist[i].anchor})
        last == Max({hist[i].cursor, hist[i].anchor})
        to == IF startOfLine(before, last) = last THEN last - 1 ELSE last
    IN  {ls \in lineStarts(before) : startOfLine(before, first) <= ls /\ ls <= to}

\* C28: commentSelection in line-comment mode returns for every selection and
\* inserts exactly one "//" for each covered line, also when the selection starts
\* on the first line of the buffer.
C28_LineModeTerminates ==
    \A i \in 1..Len(hist) :
        lineMode(i)
        => /\ hist[i].ret = "done"
           /\ textAfter(i) = insertAtAll(hist[i].text, coveredLines(i), <<"/", "/">>)

\* the same for a selection that starts below the first line of the buffer
C28_TerminatesBelowFirstLine ==
    \A i \in 1..Len(hist) :
        ( /\ lineMode(i)
          /\ startOfLine(hist[i].text, Min({hist[i].cursor, hist[i].anchor})) > 0 )
        => /\ hist[i].ret = "done"
           /\ textAfter(i) = insertAtAll(hist[i].text, coveredLines(i), <<"/", "/">>)

----------------------------------------------------------------------------
(* Block navigation and selection with any count, zero and negative included *)

\* CppDocument::selectBlockStart(count)
SelectBlockStart(count) ==
    /\ loopLeft
    /\ \E blockStartPos \in blockLoop(text, cursor, PreviousCharacter, count) :
          LET selectionStart == Max({cursor, anchor})
          IN  /\ cursor' = (IF blockStartPos = NeverReturns THEN cursor ELSE blockStartPos)
              /\ anchor' = (IF blockStartPos = NeverReturns THEN anchor ELSE selectionStart)
              /\ hist' = remember(hist, Call("selectBlockStart", count, blockStartPos))
    /\ UNCHANGED <<text, docFile, fnStart, settings, peer, opened>>
    /\ UNCHANGED resolverVars

\* CppDocument::selectBlockEnd(count)
SelectBlockEnd(count) ==
    /\ loopLeft
    /\ \E blockEndPos \in blockLoop(text, cursor, NextCharacter, count) :
          LET selectionStart == Min({cursor, anchor})
          IN  /\ cursor' = (IF blockEndPos = NeverReturns THEN cursor ELSE blockEndPos)
              /\ anchor' = (IF blockEndPos = NeverReturns THEN anchor ELSE selectionStart)
              /\ hist' = remember(hist, Call("selectBlockEnd", count, blockEndPos))
    /\ UNCHANGED <<text, docFile, fnStart, settings, peer, opened>>
    /\ UNCHANGED resolverVars

\* CppDocument::selectBlockUp(count)
SelectBlockUp(count) ==
    /\ loopLeft
    /\ \E blockEndPos \in blockLoop(text, cursor, NextCharacter, count) :
          LET blockStartPos == moveBlock(text, blockEndPos, PreviousCharacter)
          IN  /\ cursor' = (IF blockEndPos = NeverReturns THEN cursor ELSE blockEndPos)
              /\ anchor' = (IF blockEndPos = NeverReturns THEN anchor ELSE blockStartPos)
              /\ hist' = remember(hist, Call("selectBlockUp", count, blockEndPos))
    /\ UNCHANGED <<text, docFile, fnStart, settings, peer, opened>>
    /\ UNCHANGED resolverVars

\* the counts the operations are called with
Counts == (0 - MaxCount)..MaxCount

\* a bracket text with the cursor and a selection anywhere in it
InitCount ==
    /\ text \in BlockTexts
    /\ cursor \in 0..Len(text)
    /\ anchor \in 0..Len(text)
    /\ docFile = Empty /\ fnStart = -1 /\ settings = NoSettings /\ hist = <<>> /\ peer = Empty /\ opened = {}
    /\ cache = [f \in Files |-> Empty] /\ disk = {} /\ project = <<>>
    /\ lastCall = NoCall /\ firstRet = [f \in Files |-> Empty]

\* one call of one of the operations
NextCount ==
    /\ hist = <<>>
    /\ \E count \in Counts :
          \/ GotoBlockStart(count)
          \/ GotoBlockEnd(count)
          \/ SelectBlockStart(count)
          \/ SelectBlockEnd(count)
          \/ SelectBlockUp(count)

SpecCount == InitCount /\ [][NextCount]_vars

\* the direction the loop of an operation moves in
loopDirection(op) ==
    IF op \in {"gotoBlockStart", "selectBlockStart"} THEN PreviousCharacter ELSE NextCharacter

\* the call returned, with the position max(count, 0) applications of moveBlock
\* lead to from the cursor, each one from the result of the one before
appliedTimes(call) ==
    LET times == IF call.arg > 0 THEN call.arg ELSE 0
        F[n \in 0..times] ==
            IF n = 0 THEN call.cursor
            ELSE moveBlock(call.text, F[n - 1], loopDirection(call.op))
    IN  /\ call.ret # NeverReturns
        /\ call.ret = F[times]

\* C29: gotoBlockStart, gotoBlockEnd, selectBlockStart, selectBlockEnd and
\* selectBlockUp return for every integer count, having applied moveBlock exactly
\* max(count, 0) times, each application from the result of the one before.
C29_LoopRunsCountTimes ==
    \A i \in 1..Len(hist) : appliedTimes(hist[i])

\* the same for the counts that are not negative
C29_LoopRunsCountTimesFromZero ==
    \A i \in 1..Len(hist) : hist[i].arg >= 0 => appliedTimes(hist[i])

====
